---- MODULE Spec2Model ----
(***************************************************************************)
(* Model of the sensor platform of the Huawei Solar integration            *)
(* (src/sensor.py): the entities that render a coordinator's data, their   *)
(* update handlers and the decoders of the structured registers.           *)
(*                                                                         *)
(* Python values are modelled as follows.                                  *)
(*   None / a value v      the sequences <<>> / <<v>>                      *)
(*   str                   a TLA+ string, f-strings by \o and ToString     *)
(*   dict                  a function, the empty dict is <<>>              *)
(*   list, tuple           a sequence; Python index i is TLA+ index i + 1  *)
(*   a dataclass instance  a record, with its class in the field cls       *)
(*   Result(value, unit)   its value (the unit is never read by sensor.py) *)
(*   an attribute never    Unset; calling a method on it raises            *)
(*   assigned              AttributeError                                  *)
(* Prices are integers in the model (the device reports decimal numbers).  *)
(***************************************************************************)
EXTENDS Integers, Sequences, FiniteSets, TLC

VARIABLES
    data,            \* HuaweiSolarUpdateCoordinator.data: register name -> value
    optimizer_data,  \* HuaweiSolarOptimizerUpdateCoordinator.data: optimizer id -> record
    ents,            \* the entities' attributes (_attr_available, _attr_native_value, ...)
    last_cycle,      \* outcome of the latest polling cycle
    enum_str,        \* what str() gives of an IntEnum member in the interpreter in use
    pending,         \* the listeners the coordinator has yet to call in the current cycle
    arg,             \* argument of the decoder under evaluation (decoder specification)
    res              \* its result

vars == <<data, optimizer_data, ents, last_cycle, enum_str, pending, arg, res>>

(***************************************************************************)
(* Bounds of the model.                                                    *)
(***************************************************************************)
MaxPeriods == 2   \* longest schedule list delivered
MaxAlarms == 2    \* longest alarm list delivered by the first alarm register
MaxPvStrings == 2 \* most PV strings of an inverter

(***************************************************************************)
(* Python helpers.                                                         *)
(***************************************************************************)
None == <<>>
Some(v) == <<v>>
EmptyDict == <<>>
Unset == [unset |-> TRUE]
Truthy(d) == DOMAIN d # {}
SeqsUpTo(S, n) == UNION {[1..k -> S] : k \in 0..n}

(***************************************************************************)
(* Register names (huawei_solar.register_names).                           *)
(***************************************************************************)
INPUT_POWER == "input_power"
STATE_2 == "state_2"
STATE_3 == "state_3"
ALARM_1 == "alarm_1"
ALARM_2 == "alarm_2"
ALARM_3 == "alarm_3"
STORAGE_TIME_OF_USE_CHARGING_AND_DISCHARGING_PERIODS == "storage_time_of_use_charging_and_discharging_periods"
STORAGE_CAPACITY_CONTROL_PERIODS == "storage_capacity_control_periods"
STORAGE_FIXED_CHARGING_AND_DISCHARGING_PERIODS == "storage_fixed_charging_and_discharging_periods"
STORAGE_FORCIBLE_CHARGE_DISCHARGE_SETTING_MODE == "storage_forcible_charge_discharge_setting_mode"
STORAGE_FORCIBLE_CHARGE_DISCHARGE_WRITE == "storage_forcible_charge_discharge_write"
STORAGE_FORCIBLE_CHARGE_POWER == "storage_forcible_charge_power"
STORAGE_FORCIBLE_DISCHARGE_POWER == "storage_forcible_discharge_power"
STORAGE_FORCED_CHARGING_AND_DISCHARGING_PERIOD == "storage_forced_charging_and_discharging_period"
STORAGE_FORCIBLE_CHARGE_DISCHARGE_SOC == "storage_forcible_charge_discharge_soc"

(***************************************************************************)
(* Register values (huawei_solar.register_values, huawei_solar.registers). *)
(* An enumeration member is a record of its name and its integer value.    *)
(***************************************************************************)
STOP == [name |-> "STOP", value |-> 0]
CHARGE == [name |-> "CHARGE", value |-> 1]
DISCHARGE == [name |-> "DISCHARGE", value |-> 2]
StorageForcibleChargeDischarge == {STOP, CHARGE, DISCHARGE}

TIME == [name |-> "TIME", value |-> 0]
SOC == [name |-> "SOC", value |-> 1]
StorageForcibleChargeDischargeTargetMode == {TIME, SOC}

ChargeFlag_CHARGE == "CHARGE"
ChargeFlag_DISCHARGE == "DISCHARGE"

OFFLINE == "OFFLINE"
RUNNING == "RUNNING"
OptimizerRunningStatus == {OFFLINE, RUNNING}

LG_RESU_TimeOfUsePeriod(start, end, price) ==
    [cls |-> "LG_RESU_TimeOfUsePeriod", start_time |-> start, end_time |-> end,
     electricity_price |-> price]
HUAWEI_LUNA2000_TimeOfUsePeriod(start, end, flag, days) ==
    [cls |-> "HUAWEI_LUNA2000_TimeOfUsePeriod", start_time |-> start, end_time |-> end,
     charge_flag |-> flag, days_effective |-> days]
PeakSettingPeriod(start, end, power, days) ==
    [cls |-> "PeakSettingPeriod", start_time |-> start, end_time |-> end,
     power |-> power, days_effective |-> days]
ChargeDischargePeriod(start, end, power) ==
    [cls |-> "ChargeDischargePeriod", start_time |-> start, end_time |-> end,
     power |-> power]
Alarm(name, id, level) == [name |-> name, id |-> id, level |-> level]

\* days_effective tuples: index 0 (TLA+ index 1) is Sunday
Weekdays == <<FALSE, TRUE, TRUE, TRUE, TRUE, TRUE, FALSE>>
Weekend == <<TRUE, FALSE, FALSE, FALSE, FALSE, FALSE, TRUE>>

(***************************************************************************)
(* The entities of the model, by their description key.                    *)
(***************************************************************************)
STATE_2_0 == STATE_2 \o "#0"
STATE_2_1 == STATE_2 \o "#1"
STATE_2_2 == STATE_2 \o "#2"
STATE_3_0 == STATE_3 \o "#0"
STATE_3_1 == STATE_3 \o "#1"
ALARMS == "ALARMS"
TOU == STORAGE_TIME_OF_USE_CHARGING_AND_DISCHARGING_PERIODS
CAPACITY_CONTROL == STORAGE_CAPACITY_CONTROL_PERIODS
FIXED_CHARGING == STORAGE_FIXED_CHARGING_AND_DISCHARGING_PERIODS
FORCIBLE_CHARGE == STORAGE_FORCIBLE_CHARGE_DISCHARGE_WRITE
OPTIMIZER_STATUS == "optimizer_1_running_status"
OPTIMIZER_POWER == "optimizer_1_output_power"
OPTIMIZER_ALARM == "optimizer_1_alarm"

IndexedEntities == {STATE_2_0, STATE_2_1, STATE_2_2, STATE_3_0, STATE_3_1}
SensorEntities == {INPUT_POWER} \cup IndexedEntities
ScheduleEntities == {TOU, CAPACITY_CONTROL, FIXED_CHARGING}
RegisterEntities == SensorEntities \cup {ALARMS} \cup ScheduleEntities \cup {FORCIBLE_CHARGE}
OptimizerEntities == {OPTIMIZER_STATUS, OPTIMIZER_POWER, OPTIMIZER_ALARM}
Entities == RegisterEntities \cup OptimizerEntities

\* HuaweiSolarOptimizerSensorEntity: optimizer_id and entity_description.key
optimizer_id(e) == 1
optimizer_key(e) ==
    CASE e = OPTIMIZER_STATUS -> "running_status"
      [] e = OPTIMIZER_POWER -> "output_power"
      [] e = OPTIMIZER_ALARM -> "alarm"

ALARM_REGISTERS == <<ALARM_1, ALARM_2, ALARM_3>>
REGISTER_NAMES ==
    <<STORAGE_FORCIBLE_CHARGE_DISCHARGE_SETTING_MODE,
      STORAGE_FORCIBLE_CHARGE_DISCHARGE_WRITE,
      STORAGE_FORCIBLE_CHARGE_POWER,
      STORAGE_FORCIBLE_DISCHARGE_POWER,
      STORAGE_FORCED_CHARGING_AND_DISCHARGING_PERIOD,
      STORAGE_FORCIBLE_CHARGE_DISCHARGE_SOC>>
Range(s) == {s[i] : i \in DOMAIN s}

\* the part of a description key before the first '#' (the whole key without one)
RECURSIVE find(_, _, _)
find(s, c, i) ==
    IF i > Len(s) THEN -1
    ELSE IF SubSeq(s, i, i) = c THEN i - 1
    ELSE find(s, c, i + 1)
register_key(key) ==
    IF find(key, "#", 1) >= 0 THEN SubSeq(key, 1, find(key, "#", 1)) ELSE key

\* HuaweiSolarSensorEntityDescription.context: key.split("#")[0] as the one
\* register name
RECURSIVE split_head(_, _, _)
split_head(s, sep, i) ==
    IF i > Len(s) \/ SubSeq(s, i, i) = sep THEN ""
    ELSE SubSeq(s, i, i) \o split_head(s, sep, i + 1)
\* mutant of context: the key is not cut at '#'
context_of_whole_key(key) == [register_names |-> <<key>>]

context(key) == [register_names |-> <<split_head(key, "#", 1)>>]

\* value_conversion_function of the descriptions STATE_2#0 .. STATE_3#1:
\* lambda value: value[i], with the index i written in the lambda
has_value_conversion_function(key) == key \in IndexedEntities
\* mutant of conversion_index: STATE_2#2 was copied from STATE_2#1 with its index
conversion_index_copied(key) ==
    CASE key = STATE_2_0 -> 0
      [] key = STATE_2_1 -> 1
      [] key = STATE_2_2 -> 1
      [] key = STATE_3_0 -> 0
      [] key = STATE_3_1 -> 1

conversion_index(key) ==
    CASE key = STATE_2_0 -> 0
      [] key = STATE_2_1 -> 1
      [] key = STATE_2_2 -> 2
      [] key = STATE_3_0 -> 0
      [] key = STATE_3_1 -> 1
\* value[i] raises IndexError when the list has no element i
conversion_raises(key, value) == conversion_index(key) >= Len(value)
value_conversion_function(key, value) == value[conversion_index(key) + 1]

\* the context an entity gives its coordinator when it is constructed: the
\* register names it subscribes to
subscription(e) ==
    CASE e \in SensorEntities -> context(e)
      [] e = ALARMS -> [register_names |-> ALARM_REGISTERS]
      [] e \in ScheduleEntities -> [register_names |-> <<e>>]
      [] e = FORCIBLE_CHARGE -> [register_names |-> REGISTER_NAMES]

(***************************************************************************)
(* Decoders.                                                               *)
(***************************************************************************)
\* mutant of fmt_02d: the number is not padded
fmt_d(n) == ToString(n)

\* f"{n:02d}" for n >= 0
fmt_02d(n) == IF n < 10 THEN "0" \o ToString(n) ELSE ToString(n)

\* mutant of _days_effective_to_str: the mask is read without the shift by one day
RECURSIVE days_loop_unshifted(_, _, _)
days_loop_unshifted(days, i, value) ==
    IF i >= 7 THEN value
    ELSE days_loop_unshifted(days, i + 1,
                             IF days[i + 1] THEN value \o ToString(i + 1) ELSE value)
_days_effective_to_str_unshifted(days) == days_loop_unshifted(days, 0, "")

RECURSIVE days_loop(_, _, _)
days_loop(days, i, value) ==
    IF i >= 7 THEN value
    ELSE days_loop(days, i + 1,
                   IF days[((i + 1) % 7) + 1] THEN value \o ToString(i + 1) ELSE value)
_days_effective_to_str(days) == days_loop(days, 0, "")

_time_int_to_str(time) == fmt_02d(time \div 60) \o ":" \o fmt_02d(time % 60)

_lg_resu_period_to_text(period) ==
    _time_int_to_str(period.start_time) \o "-" \o _time_int_to_str(period.end_time)
        \o "/" \o ToString(period.electricity_price)

\* mutant of _huawei_luna2000_period_to_text: the signs of the charge flag are swapped
_huawei_luna2000_period_to_text_swapped(period) ==
    _time_int_to_str(period.start_time) \o "-" \o _time_int_to_str(period.end_time)
        \o "/" \o _days_effective_to_str(period.days_effective)
        \o "/" \o (IF period.charge_flag = ChargeFlag_CHARGE THEN "-" ELSE "+")

_huawei_luna2000_period_to_text(period) ==
    _time_int_to_str(period.start_time) \o "-" \o _time_int_to_str(period.end_time)
        \o "/" \o _days_effective_to_str(period.days_effective)
        \o "/" \o (IF period.charge_flag = ChargeFlag_CHARGE THEN "+" ELSE "-")

capacity_control_period_to_text(psp) ==
    _time_int_to_str(psp.start_time)
        \o "-" \o _time_int_to_str(psp.end_time)
        \o "/" \o _days_effective_to_str(psp.days_effective)
        \o "/" \o ToString(psp.power) \o "W"

fixed_charging_period_to_text(cdp) ==
    _time_int_to_str(cdp.start_time)
        \o "-" \o _time_int_to_str(cdp.end_time)
        \o "/" \o ToString(cdp.power) \o "W"

\* f"Period {idx+1}" for a Python index idx
period_label(idx) == "Period " \o ToString(idx + 1)

\* mutant of periods_to_attributes: the labels run against the order of the list
periods_to_attributes_reversed(texts) ==
    LET indices == 0 .. (Len(texts) - 1)
    IN  [k \in {period_label(idx) : idx \in indices} |->
            texts[Len(texts) - (CHOOSE idx \in indices : period_label(idx) = k)]]

\* {f"Period {idx+1}": text for idx, text in enumerate(texts)}, texts being the
\* texts of the periods in the order of the list
periods_to_attributes(texts) ==
    LET indices == 0 .. (Len(texts) - 1)
    IN  [k \in {period_label(idx) : idx \in indices} |->
            texts[(CHOOSE idx \in indices : period_label(idx) = k) + 1]]

\* ", ".join(texts)
RECURSIVE join(_, _)
join(sep, texts) ==
    IF Len(texts) = 0 THEN ""
    ELSE IF Len(texts) = 1 THEN texts[1]
    ELSE texts[1] \o sep \o join(sep, Tail(texts))

alarm_to_text(alarm) ==
    "[" \o ToString(alarm.level) \o "] " \o ToString(alarm.id) \o ": " \o alarm.name

\* str() of a member of an IntEnum: the text of its integer value (Python 3.11
\* and later) or "Class.NAME" (earlier interpreters)
EnumStrStyles == {"value", "name"}
enum_class(member) ==
    IF member \in StorageForcibleChargeDischarge THEN "StorageForcibleChargeDischarge"
    ELSE "StorageForcibleChargeDischargeTargetMode"
str(member) ==
    IF enum_str = "value" THEN ToString(member.value)
    ELSE enum_class(member) \o "." \o member.name

(***************************************************************************)
(* Update handlers.  Each takes the entity's attributes and the            *)
(* coordinator's data and gives the attributes after the handler; writes   *)
(* counts the calls of async_write_ha_state, raised tells that the handler *)
(* ended in an exception.                                                  *)
(***************************************************************************)
\* No constructor of sensor.py assigns _attr_extra_state_attributes: a new
\* entity has what its base classes give it, a mapping or nothing (host_attrs).
NewEntity(host_attrs) ==
    [available |-> TRUE, native_value |-> None, attrs |-> host_attrs,
     writes |-> 0, raised |-> FALSE]

\* a statement that follows one that raised is not executed
async_write_ha_state(self) == IF self.raised THEN self ELSE [self EXCEPT !.writes = @ + 1]

\* self._attr_extra_state_attributes.clear()
clear_extra_state_attributes(self) ==
    IF self.attrs = Unset
    THEN [self EXCEPT !.raised = TRUE]
    ELSE [self EXCEPT !.attrs = EmptyDict]

\* mutant of the sensor's handler: the register is looked up by the description
\* key, '#' and index included
HuaweiSolarSensorEntity_update_by_description_key(key, self, d) ==
    IF Truthy(d) /\ key \in DOMAIN d
    THEN LET value == d[key]
             converted == IF has_value_conversion_function(key)
                          THEN value_conversion_function(key, value)
                          ELSE value
         IN  async_write_ha_state(
                 [self EXCEPT !.native_value = Some(converted), !.available = TRUE])
    ELSE async_write_ha_state(
             [self EXCEPT !.available = FALSE, !.native_value = None])

HuaweiSolarSensorEntity_handle_coordinator_update(key, self, d) ==
    IF Truthy(d) /\ register_key(key) \in DOMAIN d
    THEN LET value == d[register_key(key)]
             converted == IF has_value_conversion_function(key)
                          THEN value_conversion_function(key, value)
                          ELSE value
         IN  IF has_value_conversion_function(key) /\ conversion_raises(key, value)
             THEN [self EXCEPT !.raised = TRUE]
             ELSE async_write_ha_state(
                      [self EXCEPT !.native_value = Some(converted), !.available = TRUE])
    ELSE async_write_ha_state(
             [self EXCEPT !.available = FALSE, !.native_value = None])

\* mutant of alarm_loop: the alarms of a register are put before those of the
\* registers read before it
RECURSIVE alarm_loop_prepending(_, _, _)
alarm_loop_prepending(d, i, alarms) ==
    IF i > Len(ALARM_REGISTERS) THEN alarms
    ELSE alarm_loop_prepending(d, i + 1,
                               IF ALARM_REGISTERS[i] \in DOMAIN d
                               THEN d[ALARM_REGISTERS[i]] \o alarms
                               ELSE alarms)

\* the alarms of the registers present, in the order of ALARM_REGISTERS
RECURSIVE alarm_loop(_, _, _)
alarm_loop(d, i, alarms) ==
    IF i > Len(ALARM_REGISTERS) THEN alarms
    ELSE alarm_loop(d, i + 1,
                    IF ALARM_REGISTERS[i] \in DOMAIN d
                    THEN alarms \o d[ALARM_REGISTERS[i]]
                    ELSE alarms)

\* "None" for no alarm, else the alarms' texts joined by ", "
alarms_to_value(alarms) ==
    IF Len(alarms) = 0 THEN "None"
    ELSE join(", ", [i \in DOMAIN alarms |-> alarm_to_text(alarms[i])])

\* mutant of the alarm entity's handler: available with any data at all
HuaweiSolarAlarmSensorEntity_update_available_with_data(self, d) ==
    IF Truthy(d)
    THEN async_write_ha_state(
             [self EXCEPT !.native_value = Some(alarms_to_value(alarm_loop(d, 1, <<>>))),
                          !.available = TRUE])
    ELSE async_write_ha_state(
             [self EXCEPT !.native_value = None, !.available = FALSE])

\* mutant of the alarm entity's handler: a register counts only if it holds alarms
HuaweiSolarAlarmSensorEntity_update_available_with_alarms(self, d) ==
    IF Truthy(d)
    THEN async_write_ha_state(
             [self EXCEPT !.native_value = Some(alarms_to_value(alarm_loop(d, 1, <<>>))),
                          !.available =
                              \E i \in DOMAIN ALARM_REGISTERS :
                                  /\ ALARM_REGISTERS[i] \in DOMAIN d
                                  /\ d[ALARM_REGISTERS[i]] # <<>>])
    ELSE async_write_ha_state(
             [self EXCEPT !.native_value = None, !.available = FALSE])

\* mutant of the alarm entity's handler: available only with the three registers
HuaweiSolarAlarmSensorEntity_update_available_with_all(self, d) ==
    IF Truthy(d)
    THEN LET alarms == alarm_loop(d, 1, <<>>)
             available == \A i \in DOMAIN ALARM_REGISTERS : ALARM_REGISTERS[i] \in DOMAIN d
             value == alarms_to_value(alarms)
         IN  async_write_ha_state(
                 [self EXCEPT !.native_value = Some(value), !.available = available])
    ELSE async_write_ha_state(
             [self EXCEPT !.native_value = None, !.available = FALSE])

\* mutant of the alarm entity's handler: the texts of the alarms are added to
\* those the entity shows already
HuaweiSolarAlarmSensorEntity_update_accumulating(self, d) ==
    IF Truthy(d)
    THEN LET alarms == alarm_loop(d, 1, <<>>)
             available == \E i \in DOMAIN ALARM_REGISTERS : ALARM_REGISTERS[i] \in DOMAIN d
             value == IF Len(alarms) = 0 \/ self.native_value \in {None, Some("None")}
                      THEN alarms_to_value(alarms)
                      ELSE self.native_value[1] \o ", " \o alarms_to_value(alarms)
         IN  async_write_ha_state(
                 [self EXCEPT !.native_value = Some(value), !.available = available])
    ELSE async_write_ha_state(
             [self EXCEPT !.native_value = None, !.available = FALSE])

HuaweiSolarAlarmSensorEntity_handle_coordinator_update(self, d) ==
    IF Truthy(d)
    THEN LET alarms == alarm_loop(d, 1, <<>>)
             available == \E i \in DOMAIN ALARM_REGISTERS : ALARM_REGISTERS[i] \in DOMAIN d
             value == alarms_to_value(alarms)
         IN  async_write_ha_state(
                 [self EXCEPT !.native_value = Some(value), !.available = available])
    ELSE async_write_ha_state(
             [self EXCEPT !.native_value = None, !.available = FALSE])

\* mutant of the time-of-use handler: the branch of the day-of-week periods is
\* missing
HuaweiSolarTOUPricePeriodsSensorEntity_update_price_only(self, d) ==
    IF Truthy(d) /\ TOU \in DOMAIN d
    THEN LET periods == d[TOU]
             counted == [self EXCEPT !.available = TRUE,
                                     !.native_value = Some(Len(periods))]
         IN  async_write_ha_state(
                 IF Len(periods) = 0 THEN clear_extra_state_attributes(counted)
                 ELSE IF periods[1].cls = "LG_RESU_TimeOfUsePeriod"
                 THEN [counted EXCEPT !.attrs =
                          periods_to_attributes(
                              [i \in DOMAIN periods |->
                                  _lg_resu_period_to_text(periods[i])])]
                 ELSE counted)
    ELSE async_write_ha_state(
             [self EXCEPT !.available = FALSE, !.native_value = None])

HuaweiSolarTOUPricePeriodsSensorEntity_handle_coordinator_update(self, d) ==
    IF Truthy(d) /\ TOU \in DOMAIN d
    THEN LET periods == d[TOU]
             counted == [self EXCEPT !.available = TRUE,
                                     !.native_value = Some(Len(periods))]
         IN  async_write_ha_state(
                 IF Len(periods) = 0 THEN clear_extra_state_attributes(counted)
                 ELSE IF periods[1].cls = "LG_RESU_TimeOfUsePeriod"
                 THEN [counted EXCEPT !.attrs =
                          periods_to_attributes(
                              [i \in DOMAIN periods |->
                                  _lg_resu_period_to_text(periods[i])])]
                 ELSE IF periods[1].cls = "HUAWEI_LUNA2000_TimeOfUsePeriod"
                 THEN [counted EXCEPT !.attrs =
                          periods_to_attributes(
                              [i \in DOMAIN periods |->
                                  _huawei_luna2000_period_to_text(periods[i])])]
                 ELSE counted)
    ELSE async_write_ha_state(
             [self EXCEPT !.available = FALSE, !.native_value = None])

HuaweiSolarCapacityControlPeriodsSensorEntity_handle_coordinator_update(self, d) ==
    IF Truthy(d) /\ CAPACITY_CONTROL \in DOMAIN d
    THEN LET periods == d[CAPACITY_CONTROL]
         IN  async_write_ha_state(
                 [self EXCEPT
                     !.available = TRUE,
                     !.native_value = Some(Len(periods)),
                     !.attrs = periods_to_attributes(
                         [i \in DOMAIN periods |->
                             capacity_control_period_to_text(periods[i])])])
    ELSE async_write_ha_state(
             clear_extra_state_attributes(
                 [self EXCEPT !.available = FALSE, !.native_value = None]))

HuaweiSolarFixedChargingPeriodsSensorEntity_handle_coordinator_update(self, d) ==
    IF Truthy(d) /\ FIXED_CHARGING \in DOMAIN d
    THEN LET periods == d[FIXED_CHARGING]
         IN  async_write_ha_state(
                 [self EXCEPT
                     !.available = TRUE,
                     !.native_value = Some(Len(periods)),
                     !.attrs = periods_to_attributes(
                         [i \in DOMAIN periods |->
                             fixed_charging_period_to_text(periods[i])])])
    ELSE async_write_ha_state(
             clear_extra_state_attributes(
                 [self EXCEPT !.available = FALSE, !.native_value = None]))

\* mutant of the forcible-charge handler: the discharge texts show charge_power
HuaweiSolarForcibleChargeEntity_update_one_power(self, d) ==
    IF Truthy(d) /\ Range(REGISTER_NAMES) \subseteq DOMAIN d
    THEN LET mode == d[STORAGE_FORCIBLE_CHARGE_DISCHARGE_WRITE]
             setting == d[STORAGE_FORCIBLE_CHARGE_DISCHARGE_SETTING_MODE]
             charge_power == d[STORAGE_FORCIBLE_CHARGE_POWER]
             discharge_power == d[STORAGE_FORCIBLE_DISCHARGE_POWER]
             target_soc == d[STORAGE_FORCIBLE_CHARGE_DISCHARGE_SOC]
             duration == d[STORAGE_FORCED_CHARGING_AND_DISCHARGING_PERIOD]
             value ==
                 IF mode = STOP THEN "Stopped"
                 ELSE IF mode = CHARGE
                 THEN IF setting = SOC
                      THEN "Charging at " \o ToString(charge_power) \o "W until "
                               \o ToString(target_soc) \o "%"
                      ELSE "Charging at " \o ToString(charge_power) \o "W for "
                               \o ToString(duration) \o " minutes"
                 ELSE IF setting = SOC
                      THEN "Discharging at " \o ToString(charge_power) \o "W until "
                               \o ToString(target_soc) \o "%"
                      ELSE "Discharging at " \o ToString(charge_power) \o "W for "
                               \o ToString(duration) \o " minutes"
         IN  IF mode # STOP /\ mode # CHARGE /\ mode # DISCHARGE
             THEN [self EXCEPT !.raised = TRUE]    \* the assert fails
             ELSE async_write_ha_state(
                      [self EXCEPT
                          !.available = TRUE,
                          !.native_value = Some(value),
                          !.attrs = [mode |-> str(mode),
                                     setting |-> str(setting),
                                     charge_power |-> charge_power,
                                     discharge_power |-> discharge_power,
                                     target_soc |-> target_soc,
                                     duration |-> duration]])
    ELSE async_write_ha_state(
             clear_extra_state_attributes(
                 [self EXCEPT !.available = FALSE, !.native_value = None]))

\* mutant of the forcible-charge handler: target_soc and duration change places
\* in the attributes
HuaweiSolarForcibleChargeEntity_update_swapped_attributes(self, d) ==
    IF Truthy(d) /\ Range(REGISTER_NAMES) \subseteq DOMAIN d
    THEN LET mode == d[STORAGE_FORCIBLE_CHARGE_DISCHARGE_WRITE]
             setting == d[STORAGE_FORCIBLE_CHARGE_DISCHARGE_SETTING_MODE]
             charge_power == d[STORAGE_FORCIBLE_CHARGE_POWER]
             discharge_power == d[STORAGE_FORCIBLE_DISCHARGE_POWER]
             target_soc == d[STORAGE_FORCIBLE_CHARGE_DISCHARGE_SOC]
             duration == d[STORAGE_FORCED_CHARGING_AND_DISCHARGING_PERIOD]
             value ==
                 IF mode = STOP THEN "Stopped"
                 ELSE IF mode = CHARGE
                 THEN IF setting = SOC
                      THEN "Charging at " \o ToString(charge_power) \o "W until "
                               \o ToString(target_soc) \o "%"
                      ELSE "Charging at " \o ToString(charge_power) \o "W for "
                               \o ToString(duration) \o " minutes"
                 ELSE IF setting = SOC
                      THEN "Discharging at " \o ToString(discharge_power) \o "W until "
                               \o ToString(target_soc) \o "%"
                      ELSE "Discharging at " \o ToString(discharge_power) \o "W for "
                               \o ToString(duration) \o " minutes"
         IN  IF mode # STOP /\ mode # CHARGE /\ mode # DISCHARGE
             THEN [self EXCEPT !.raised = TRUE]    \* the assert fails
             ELSE async_write_ha_state(
                      [self EXCEPT
                          !.available = TRUE,
                          !.native_value = Some(value),
                          !.attrs = [mode |-> str(mode),
                                     setting |-> str(setting),
                                     charge_power |-> charge_power,
                                     discharge_power |-> discharge_power,
                                     target_soc |-> duration,
                                     duration |-> target_soc]])
    ELSE async_write_ha_state(
             clear_extra_state_attributes(
                 [self EXCEPT !.available = FALSE, !.native_value = None]))

\* mutant of the forcible-charge handler: without the assert, any other mode is
\* rendered as a discharge
HuaweiSolarForcibleChargeEntity_update_without_assert(self, d) ==
    IF Truthy(d) /\ Range(REGISTER_NAMES) \subseteq DOMAIN d
    THEN LET mode == d[STORAGE_FORCIBLE_CHARGE_DISCHARGE_WRITE]
             setting == d[STORAGE_FORCIBLE_CHARGE_DISCHARGE_SETTING_MODE]
             charge_power == d[STORAGE_FORCIBLE_CHARGE_POWER]
             discharge_power == d[STORAGE_FORCIBLE_DISCHARGE_POWER]
             target_soc == d[STORAGE_FORCIBLE_CHARGE_DISCHARGE_SOC]
             duration == d[STORAGE_FORCED_CHARGING_AND_DISCHARGING_PERIOD]
             value ==
                 IF mode = STOP THEN "Stopped"
                 ELSE IF mode = CHARGE
                 THEN IF setting = SOC
                      THEN "Charging at " \o ToString(charge_power) \o "W until "
                               \o ToString(target_soc) \o "%"
                      ELSE "Charging at " \o ToString(charge_power) \o "W for "
                               \o ToString(duration) \o " minutes"
                 ELSE IF setting = SOC
                      THEN "Discharging at " \o ToString(discharge_power) \o "W until "
                               \o ToString(target_soc) \o "%"
                      ELSE "Discharging at " \o ToString(discharge_power) \o "W for "
                               \o ToString(duration) \o " minutes"
         IN  IF FALSE
             THEN [self EXCEPT !.raised = TRUE]    \* the assert fails
             ELSE async_write_ha_state(
                      [self EXCEPT
                          !.available = TRUE,
                          !.native_value = Some(value),
                          !.attrs = [mode |-> str(mode),
                                     setting |-> str(setting),
                                     charge_power |-> charge_power,
                                     discharge_power |-> discharge_power,
                                     target_soc |-> target_soc,
                                     duration |-> duration]])
    ELSE async_write_ha_state(
             clear_extra_state_attributes(
                 [self EXCEPT !.available = FALSE, !.native_value = None]))

\* as the handler, but by duration only when the target mode is TIME
HuaweiSolarForcibleChargeEntity_update_time_checked(self, d) ==
    IF Truthy(d) /\ Range(REGISTER_NAMES) \subseteq DOMAIN d
    THEN LET mode == d[STORAGE_FORCIBLE_CHARGE_DISCHARGE_WRITE]
             setting == d[STORAGE_FORCIBLE_CHARGE_DISCHARGE_SETTING_MODE]
             charge_power == d[STORAGE_FORCIBLE_CHARGE_POWER]
             discharge_power == d[STORAGE_FORCIBLE_DISCHARGE_POWER]
             target_soc == d[STORAGE_FORCIBLE_CHARGE_DISCHARGE_SOC]
             duration == d[STORAGE_FORCED_CHARGING_AND_DISCHARGING_PERIOD]
             value ==
                 IF mode = STOP THEN "Stopped"
                 ELSE IF mode = CHARGE
                 THEN IF setting # TIME
                      THEN "Charging at " \o ToString(charge_power) \o "W until "
                               \o ToString(target_soc) \o "%"
                      ELSE "Charging at " \o ToString(charge_power) \o "W for "
                               \o ToString(duration) \o " minutes"
                 ELSE IF setting # TIME
                      THEN "Discharging at " \o ToString(discharge_power) \o "W until "
                               \o ToString(target_soc) \o "%"
                      ELSE "Discharging at " \o ToString(discharge_power) \o "W for "
                               \o ToString(duration) \o " minutes"
         IN  IF mode # STOP /\ mode # CHARGE /\ mode # DISCHARGE
             THEN [self EXCEPT !.raised = TRUE]    \* the assert fails
             ELSE async_write_ha_state(
                      [self EXCEPT
                          !.available = TRUE,
                          !.native_value = Some(value),
                          !.attrs = [mode |-> str(mode),
                                     setting |-> str(setting),
                                     charge_power |-> charge_power,
                                     discharge_power |-> discharge_power,
                                     target_soc |-> target_soc,
                                     duration |-> duration]])
    ELSE async_write_ha_state(
             clear_extra_state_attributes(
                 [self EXCEPT !.available = FALSE, !.native_value = None]))

HuaweiSolarForcibleChargeEntity_handle_coordinator_update(self, d) ==
    IF Truthy(d) /\ Range(REGISTER_NAMES) \subseteq DOMAIN d
    THEN LET mode == d[STORAGE_FORCIBLE_CHARGE_DISCHARGE_WRITE]
             setting == d[STORAGE_FORCIBLE_CHARGE_DISCHARGE_SETTING_MODE]
             charge_power == d[STORAGE_FORCIBLE_CHARGE_POWER]
             discharge_power == d[STORAGE_FORCIBLE_DISCHARGE_POWER]
             target_soc == d[STORAGE_FORCIBLE_CHARGE_DISCHARGE_SOC]
             duration == d[STORAGE_FORCED_CHARGING_AND_DISCHARGING_PERIOD]
             value ==
                 IF mode = STOP THEN "Stopped"
                 ELSE IF mode = CHARGE
                 THEN IF setting = SOC
                      THEN "Charging at " \o ToString(charge_power) \o "W until "
                               \o ToString(target_soc) \o "%"
                      ELSE "Charging at " \o ToString(charge_power) \o "W for "
                               \o ToString(duration) \o " minutes"
                 ELSE IF setting = SOC
                      THEN "Discharging at " \o ToString(discharge_power) \o "W until "
                               \o ToString(target_soc) \o "%"
                      ELSE "Discharging at " \o ToString(discharge_power) \o "W for "
                               \o ToString(duration) \o " minutes"
         IN  IF mode # STOP /\ mode # CHARGE /\ mode # DISCHARGE
             THEN [self EXCEPT !.raised = TRUE]    \* the assert fails
             ELSE async_write_ha_state(
                      [self EXCEPT
                          !.available = TRUE,
                          !.native_value = Some(value),
                          !.attrs = [mode |-> str(mode),
                                     setting |-> str(setting),
                                     charge_power |-> charge_power,
                                     discharge_power |-> discharge_power,
                                     target_soc |-> target_soc,
                                     duration |-> duration]])
    ELSE async_write_ha_state(
             clear_extra_state_attributes(
                 [self EXCEPT !.available = FALSE, !.native_value = None]))

\* OPTIMIZER_DETAIL_SENSOR_DESCRIPTIONS: the alarm description alone has a
\* value_conversion_function,
\* lambda alarms: ", ".join(alarms) if len(alarms) else "None"
optimizer_has_value_conversion_function(key) == key = "alarm"
optimizer_value_conversion_function(key, value) ==
    IF Len(value) # 0 THEN join(", ", value) ELSE "None"

\* as the handler, but with every sensor of an offline optimizer unavailable
HuaweiSolarOptimizerSensorEntity_update_offline_all(e, self, d) ==
    LET available ==
            /\ optimizer_id(e) \in DOMAIN d
            /\ d[optimizer_id(e)].running_status # OFFLINE
        field == d[optimizer_id(e)][optimizer_key(e)]
        value == IF optimizer_id(e) \in DOMAIN d
                 THEN IF optimizer_has_value_conversion_function(optimizer_key(e))
                      THEN Some(optimizer_value_conversion_function(optimizer_key(e), field))
                      ELSE Some(field)
                 ELSE None
    IN  async_write_ha_state(
            [self EXCEPT !.available = available, !.native_value = value])

HuaweiSolarOptimizerSensorEntity_handle_coordinator_update(e, self, d) ==
    LET available ==
            /\ optimizer_id(e) \in DOMAIN d
            /\ \/ optimizer_key(e) = "running_status"
               \/ d[optimizer_id(e)].running_status # OFFLINE
        field == d[optimizer_id(e)][optimizer_key(e)]
        value == IF optimizer_id(e) \in DOMAIN d
                 THEN IF optimizer_has_value_conversion_function(optimizer_key(e))
                      THEN Some(optimizer_value_conversion_function(optimizer_key(e), field))
                      ELSE Some(field)
                 ELSE None
    IN  async_write_ha_state(
            [self EXCEPT !.available = available, !.native_value = value])

\* the coordinator calls the entity's listener
notify(e, self, d) ==
    LET fresh == [self EXCEPT !.writes = 0, !.raised = FALSE]
    IN  CASE e \in SensorEntities ->
                 HuaweiSolarSensorEntity_handle_coordinator_update(e, fresh, d)
          [] e = ALARMS ->
                 HuaweiSolarAlarmSensorEntity_handle_coordinator_update(fresh, d)
          [] e = TOU ->
                 HuaweiSolarTOUPricePeriodsSensorEntity_handle_coordinator_update(fresh, d)
          [] e = CAPACITY_CONTROL ->
                 HuaweiSolarCapacityControlPeriodsSensorEntity_handle_coordinator_update(fresh, d)
          [] e = FIXED_CHARGING ->
                 HuaweiSolarFixedChargingPeriodsSensorEntity_handle_coordinator_update(fresh, d)
          [] e = FORCIBLE_CHARGE ->
                 HuaweiSolarForcibleChargeEntity_handle_coordinator_update(fresh, d)
          [] e \in OptimizerEntities ->
                 HuaweiSolarOptimizerSensorEntity_handle_coordinator_update(e, fresh, d)

(***************************************************************************)
(* The values the registers take in the model.  A delivered snapshot       *)
(* varies the registers of one entity at a time (each present with any of  *)
(* its values, or absent) and holds the other registers at DefaultData.    *)
(***************************************************************************)
Option(S) == {None} \cup {Some(v) : v \in S}

InputPowers == {0, 4200}
State2Values == {<<"Locked", "PV connected", "DSP data collection">>,
                 <<"Unlocked", "PV disconnected", "No DSP data collection">>}
State3Values == {<<"On-grid", "Off-grid switch disabled">>,
                 <<"Off-grid", "Off-grid switch enabled">>}
Alarm1 == Alarm("GridFault", 17, 2)
Alarm2 == Alarm("FanFault", 40, 1)
Alarm3 == Alarm("Overheat", 71, 3)
LgPeriods == {LG_RESU_TimeOfUsePeriod(0, 390, 3), LG_RESU_TimeOfUsePeriod(390, 1439, 12)}
LunaPeriods == {HUAWEI_LUNA2000_TimeOfUsePeriod(60, 305, ChargeFlag_CHARGE, Weekdays),
                HUAWEI_LUNA2000_TimeOfUsePeriod(1020, 1380, ChargeFlag_DISCHARGE, Weekend)}
PeakPeriods == {PeakSettingPeriod(0, 720, 2500, Weekdays),
                PeakSettingPeriod(720, 1439, 900, Weekend)}
ChargeDischargePeriods == {ChargeDischargePeriod(5, 600, 1000),
                           ChargeDischargePeriod(600, 1205, -1500)}

DefaultData ==
    [input_power |-> 4200,
     state_2 |-> <<"Locked", "PV connected", "DSP data collection">>,
     state_3 |-> <<"On-grid", "Off-grid switch disabled">>,
     alarm_1 |-> <<>>,
     alarm_2 |-> <<>>,
     alarm_3 |-> <<>>,
     storage_time_of_use_charging_and_discharging_periods |->
         <<LG_RESU_TimeOfUsePeriod(0, 390, 3)>>,
     storage_capacity_control_periods |-> <<PeakSettingPeriod(0, 720, 2500, Weekdays)>>,
     storage_fixed_charging_and_discharging_periods |->
         <<ChargeDischargePeriod(5, 600, 1000)>>,
     storage_forcible_charge_discharge_setting_mode |-> SOC,
     storage_forcible_charge_discharge_write |-> CHARGE,
     storage_forcible_charge_power |-> 2000,
     storage_forcible_discharge_power |-> 1500,
     storage_forced_charging_and_discharging_period |-> 60,
     storage_forcible_charge_discharge_soc |-> 80]

\* per entity: the ways its registers are read (None: the read of the register failed);
\* the six registers of the forcible-charge entity vary in value when all are read
ForcibleReadings ==
    [storage_forcible_charge_discharge_setting_mode :
         Option(StorageForcibleChargeDischargeTargetMode),
     storage_forcible_charge_discharge_write : Option(StorageForcibleChargeDischarge),
     storage_forcible_charge_power : Option({2000, 500}),
     storage_forcible_discharge_power : Option({1500, 700}),
     storage_forced_charging_and_discharging_period : Option({60}),
     storage_forcible_charge_discharge_soc : Option({80})]

Readings ==
    [input_power : Option(InputPowers)]
    \cup [state_2 : Option(State2Values)]
    \cup [state_3 : Option(State3Values)]
    \cup [alarm_1 : Option(SeqsUpTo({Alarm1, Alarm2}, MaxAlarms)),
          alarm_2 : Option({<<>>, <<Alarm2>>}),
          alarm_3 : Option({<<>>, <<Alarm3>>})]
    \cup [storage_time_of_use_charging_and_discharging_periods :
              Option(SeqsUpTo(LgPeriods, MaxPeriods) \cup SeqsUpTo(LunaPeriods, MaxPeriods))]
    \cup [storage_capacity_control_periods : Option(SeqsUpTo(PeakPeriods, MaxPeriods))]
    \cup [storage_fixed_charging_and_discharging_periods :
              Option(SeqsUpTo(ChargeDischargePeriods, MaxPeriods))]
    \cup {reading \in ForcibleReadings :
              \/ \A r \in DOMAIN reading : reading[r] # None
              \/ \A r \in DOMAIN reading : reading[r] \in {None, Some(DefaultData[r])}}

Snapshot(reading) ==
    LET read == {r \in DOMAIN reading : reading[r] # None}
    IN  [r \in (DOMAIN DefaultData \ DOMAIN reading) \cup read |->
            IF r \in read THEN reading[r][1] ELSE DefaultData[r]]

OptimizerRecords ==
    [running_status : OptimizerRunningStatus, output_power : {0, 7},
     alarm : {<<>>, <<"Input overvoltage", "Overtemperature">>}]
DefaultOptimizerData ==
    [id \in {1, 2} |-> [running_status |-> RUNNING, output_power |-> 7,
                        alarm |-> <<>>]]
\* the optimizer of the sensors takes every record; the other optimizer is in
\* the data or not
OptimizerSnapshots ==
    {snapshot \in UNION {[ids -> OptimizerRecords] : ids \in SUBSET {1, 2}} :
        2 \in DOMAIN snapshot => snapshot[2] = DefaultOptimizerData[2]}

\* what one successful polling cycle delivers
Deliveries ==
    {[registers |-> Snapshot(reading), optimizers |-> DefaultOptimizerData] :
        reading \in Readings}
    \cup {[registers |-> DefaultData, optimizers |-> snapshot] :
        snapshot \in OptimizerSnapshots}

(***************************************************************************)
(* The coordinators.  A polling cycle replaces the coordinators' data and  *)
(* calls the listener of every entity once; a failed cycle delivers no     *)
(* data, the empty snapshot.                                               *)
(***************************************************************************)
InitEntities ==
    /\ data = EmptyDict
    /\ optimizer_data = EmptyDict
    /\ \E host_attrs \in {Unset, EmptyDict} : ents = [e \in Entities |-> NewEntity(host_attrs)]
    /\ last_cycle = "none"
    /\ enum_str \in EnumStrStyles
    /\ pending = <<>>

Init ==
    /\ InitEntities
    /\ arg = None
    /\ res = None

deliver(snapshot, optimizer_snapshot, outcome) ==
    /\ data' = snapshot
    /\ optimizer_data' = optimizer_snapshot
    /\ ents' = [e \in Entities |->
                   IF e \in OptimizerEntities
                   THEN notify(e, ents[e], optimizer_snapshot)
                   ELSE notify(e, ents[e], snapshot)]
    /\ last_cycle' = outcome
    /\ pending' = <<>>
    /\ UNCHANGED <<enum_str, arg, res>>

CycleSuccess ==
    \E delivery \in Deliveries :
        deliver(delivery.registers, delivery.optimizers, "success")
CycleFailure == deliver(EmptyDict, EmptyDict, "failure")

Next ==
    \/ CycleSuccess
    \/ CycleFailure

Spec == Init /\ [][Next]_vars

(***************************************************************************)
(* The cycle of the inverter coordinator in its steps: the coordinator     *)
(* replaces its data, then calls its listeners one after the other, in the *)
(* order async_setup_entry added the entities; each handler runs to its    *)
(* end (it is a @callback and awaits nothing) and reads the coordinator's   *)
(* data when it runs.  The next cycle begins when every listener is called. *)
(***************************************************************************)
Listeners ==
    <<INPUT_POWER, STATE_2_0, STATE_2_1, STATE_2_2, STATE_3_0, STATE_3_1, ALARMS>>

StepReadings ==
    [input_power : Option(InputPowers)]
    \cup [state_2 : Option(State2Values)]
    \cup [state_3 : Option(State3Values)]

\* mutant of Refresh: the data is replaced while listeners are still to be called
RefreshInterleaved ==
    /\ \E snapshot \in {Snapshot(reading) : reading \in StepReadings} \cup {EmptyDict} :
           /\ data' = snapshot
           /\ last_cycle' = IF snapshot = EmptyDict THEN "failure" ELSE "success"
    /\ pending' = IF pending = <<>> THEN Listeners ELSE pending
    /\ UNCHANGED <<optimizer_data, ents, enum_str, arg, res>>

Refresh ==
    /\ pending = <<>>
    /\ \E snapshot \in {Snapshot(reading) : reading \in StepReadings} \cup {EmptyDict} :
           /\ data' = snapshot
           /\ last_cycle' = IF snapshot = EmptyDict THEN "failure" ELSE "success"
    /\ pending' = Listeners
    /\ UNCHANGED <<optimizer_data, ents, enum_str, arg, res>>

NotifyNext ==
    /\ pending # <<>>
    /\ ents' = [ents EXCEPT ![Head(pending)] = notify(Head(pending), @, data)]
    /\ pending' = Tail(pending)
    /\ UNCHANGED <<data, optimizer_data, last_cycle, enum_str, arg, res>>

NextStepwise ==
    \/ Refresh
    \/ NotifyNext

SpecStepwise == Init /\ [][NextStepwise]_vars

(***************************************************************************)
(* A transport that breaks its contract: it delivers an operating mode     *)
(* that is no member of StorageForcibleChargeDischarge, or a list with     *)
(* fewer elements than the descriptions index.                             *)
(***************************************************************************)
UnknownMode == [name |-> "UNKNOWN", value |-> 3]
ShortState2Values == {<<"Locked", "PV connected">>, <<>>}

UnknownTargetMode == [name |-> "UNKNOWN", value |-> 2]

UncheckedReadings ==
    {[reading EXCEPT !.storage_forcible_charge_discharge_write = Some(UnknownMode)] :
        reading \in {r \in ForcibleReadings : \A k \in DOMAIN r : r[k] # None}}
    \cup {[reading EXCEPT
               !.storage_forcible_charge_discharge_setting_mode = Some(UnknownTargetMode)] :
        reading \in {r \in ForcibleReadings : \A k \in DOMAIN r : r[k] # None}}
    \cup [state_2 : {Some(v) : v \in ShortState2Values}]
UncheckedDeliveries ==
    {[registers |-> Snapshot(reading), optimizers |-> DefaultOptimizerData] :
        reading \in UncheckedReadings}

CycleUnchecked ==
    \E delivery \in UncheckedDeliveries :
        deliver(delivery.registers, delivery.optimizers, "success")

NextUnchecked ==
    \/ CycleSuccess
    \/ CycleFailure
    \/ CycleUnchecked

SpecUnchecked == Init /\ [][NextUnchecked]_vars

(***************************************************************************)
(* The decoders on their own: a decoder is applied to one argument drawn   *)
(* from the sets below.                                                    *)
(***************************************************************************)
Times == {0, 9, 65, 600, 1439}
MinutesOfDay == 0..1439
Prices == {0, 3, 25}
Powers == {0, 900, 2500}
ChargeFlags == {ChargeFlag_CHARGE, ChargeFlag_DISCHARGE, "UNKNOWN"}
DayMasks == [1..7 -> BOOLEAN]
SomeDayMasks ==
    {Weekdays, Weekend,
     <<TRUE, FALSE, FALSE, FALSE, FALSE, FALSE, FALSE>>,
     <<FALSE, FALSE, FALSE, FALSE, FALSE, FALSE, FALSE>>}

InitDecoders ==
    /\ InitEntities
    /\ res = None
    /\ \/ \E days \in DayMasks :
              arg = [fn |-> "_days_effective_to_str", v |-> days]
       \/ \E time \in MinutesOfDay :
              arg = [fn |-> "_time_int_to_str", v |-> time]
       \/ \E start \in Times, end \in Times, price \in Prices :
              arg = [fn |-> "_lg_resu_period_to_text",
                     v |-> LG_RESU_TimeOfUsePeriod(start, end, price)]
       \/ \E start \in Times, end \in Times, flag \in ChargeFlags, days \in SomeDayMasks :
              arg = [fn |-> "_huawei_luna2000_period_to_text",
                     v |-> HUAWEI_LUNA2000_TimeOfUsePeriod(start, end, flag, days)]
       \/ \E start \in Times, end \in Times, power \in Powers, days \in SomeDayMasks :
              arg = [fn |-> "capacity_control_period_to_text",
                     v |-> PeakSettingPeriod(start, end, power, days)]
       \/ \E start \in Times, end \in Times, power \in Powers :
              arg = [fn |-> "fixed_charging_period_to_text",
                     v |-> ChargeDischargePeriod(start, end, power)]

call(fn, result) ==
    /\ res = None
    /\ arg.fn = fn
    /\ res' = Some(result)
    /\ UNCHANGED <<data, optimizer_data, ents, last_cycle, enum_str, pending, arg>>

CallDaysEffectiveToStr ==
    call("_days_effective_to_str", _days_effective_to_str(arg.v))
CallTimeIntToStr ==
    call("_time_int_to_str", _time_int_to_str(arg.v))
CallLgResuPeriodToText ==
    call("_lg_resu_period_to_text", _lg_resu_period_to_text(arg.v))
CallHuaweiLuna2000PeriodToText ==
    call("_huawei_luna2000_period_to_text", _huawei_luna2000_period_to_text(arg.v))
CallCapacityControlPeriodToText ==
    call("capacity_control_period_to_text", capacity_control_period_to_text(arg.v))
CallFixedChargingPeriodToText ==
    call("fixed_charging_period_to_text", fixed_charging_period_to_text(arg.v))

NextDecoders ==
    \/ CallDaysEffectiveToStr
    \/ CallTimeIntToStr
    \/ CallLgResuPeriodToText
    \/ CallHuaweiLuna2000PeriodToText
    \/ CallCapacityControlPeriodToText
    \/ CallFixedChargingPeriodToText

SpecDecoders == InitDecoders /\ [][NextDecoders]_vars

(***************************************************************************)
(* Platform setup.  async_setup_entry builds the entities of every bridge  *)
(* from the bridge's properties, from the coordinators that exist and from *)
(* the device infos.  A description is modelled by its key, an entity by   *)
(* its class, its coordinator, its description key, its device and its     *)
(* unique id.                                                              *)
(***************************************************************************)
\* rv.MeterType and rv.StorageProductModel
SINGLE_PHASE == [name |-> "SINGLE_PHASE", value |-> 0]
THREE_PHASE == [name |-> "THREE_PHASE", value |-> 1]
StorageProductModel_NONE == [name |-> "NONE", value |-> 0]
StorageProductModel_HUAWEI_LUNA2000 == [name |-> "HUAWEI_LUNA2000", value |-> 2]

\* the keys of INVERTER_SENSOR_DESCRIPTIONS, in the order of the tuple
INVERTER_SENSOR_DESCRIPTIONS ==
    <<"input_power",
      "line_voltage_a_b",
      "line_voltage_b_c",
      "line_voltage_c_a",
      "phase_a_voltage",
      "phase_b_voltage",
      "phase_c_voltage",
      "phase_a_current",
      "phase_b_current",
      "phase_c_current",
      "day_active_power_peak",
      "active_power",
      "reactive_power",
      "power_factor",
      "efficiency",
      "internal_temperature",
      "insulation_resistance",
      "device_status",
      "startup_time",
      "shutdown_time",
      "accumulated_yield_energy",
      "total_dc_input_power",
      "current_electricity_generation_statistics_time",
      "hourly_yield_energy",
      "daily_yield_energy",
      "state_1",
      "state_2#0",
      "state_2#1",
      "state_2#2",
      "state_3#0",
      "state_3#1">>

\* the key of OPTIMIZER_SENSOR_DESCRIPTIONS
OPTIMIZER_SENSOR_DESCRIPTIONS ==
    <<"nb_online_optimizers">>

\* the keys of OPTIMIZER_DETAIL_SENSOR_DESCRIPTIONS
OPTIMIZER_DETAIL_SENSOR_DESCRIPTIONS ==
    <<"output_power",
      "voltage_to_ground",
      "output_voltage",
      "output_current",
      "input_voltage",
      "input_current",
      "temperature",
      "running_status",
      "accumulated_energy_yield",
      "alarm">>

\* the keys of SINGLE_PHASE_METER_ENTITY_DESCRIPTIONS
SINGLE_PHASE_METER_ENTITY_DESCRIPTIONS ==
    <<"meter_status",
      "grid_a_voltage",
      "active_grid_a_current",
      "power_meter_active_power",
      "power_meter_reactive_power",
      "active_grid_power_factor",
      "active_grid_frequency",
      "grid_exported_energy",
      "grid_accumulated_energy",
      "grid_accumulated_reactive_power">>

\* the keys of THREE_PHASE_METER_ENTITY_DESCRIPTIONS
THREE_PHASE_METER_ENTITY_DESCRIPTIONS ==
    <<"meter_status",
      "grid_a_voltage",
      "grid_b_voltage",
      "grid_c_voltage",
      "active_grid_a_current",
      "active_grid_b_current",
      "active_grid_c_current",
      "power_meter_active_power",
      "power_meter_reactive_power",
      "active_grid_power_factor",
      "active_grid_frequency",
      "grid_exported_energy",
      "grid_accumulated_energy",
      "grid_accumulated_reactive_power",
      "active_grid_a_b_voltage",
      "active_grid_b_c_voltage",
      "active_grid_c_a_voltage",
      "active_grid_a_power",
      "active_grid_b_power",
      "active_grid_c_power">>

\* the keys of BATTERIES_SENSOR_DESCRIPTIONS
BATTERIES_SENSOR_DESCRIPTIONS ==
    <<"storage_state_of_capacity",
      "storage_running_status",
      "storage_bus_voltage",
      "storage_bus_current",
      "storage_charge_discharge_power",
      "storage_total_charge",
      "storage_total_discharge",
      "storage_current_day_charge_capacity",
      "storage_current_day_discharge_capacity">>

\* BATTERY_TEMPLATE_SENSOR_DESCRIPTIONS: the keys of each template, None for
\* a sensor the battery does not have
BATTERY_TEMPLATE_SENSOR_DESCRIPTIONS ==
    <<[battery_1_key |-> Some("storage_unit_1_working_mode_b"),
       battery_2_key |-> None],
      [battery_1_key |-> Some("storage_unit_1_rated_charge_power"),
       battery_2_key |-> None],
      [battery_1_key |-> Some("storage_unit_1_rated_discharge_power"),
       battery_2_key |-> None],
      [battery_1_key |-> Some("storage_unit_1_current_day_charge_capacity"),
       battery_2_key |-> Some("storage_unit_2_current_day_charge_capacity")],
      [battery_1_key |-> Some("storage_unit_1_current_day_discharge_capacity"),
       battery_2_key |-> Some("storage_unit_2_current_day_discharge_capacity")],
      [battery_1_key |-> Some("storage_unit_1_bus_current"),
       battery_2_key |-> Some("storage_unit_2_bus_current")],
      [battery_1_key |-> Some("storage_unit_1_bus_voltage"),
       battery_2_key |-> Some("storage_unit_2_bus_voltage")],
      [battery_1_key |-> Some("storage_unit_1_battery_temperature"),
       battery_2_key |-> Some("storage_unit_2_battery_temperature")],
      [battery_1_key |-> Some("storage_unit_1_remaining_charge_dis_charge_time"),
       battery_2_key |-> None],
      [battery_1_key |-> Some("storage_unit_1_total_charge"),
       battery_2_key |-> Some("storage_unit_2_total_charge")],
      [battery_1_key |-> Some("storage_unit_1_total_discharge"),
       battery_2_key |-> Some("storage_unit_2_total_discharge")],
      [battery_1_key |-> Some("storage_unit_1_state_of_capacity"),
       battery_2_key |-> Some("storage_unit_2_state_of_capacity")],
      [battery_1_key |-> None,
       battery_2_key |-> Some("storage_unit_2_running_status")],
      [battery_1_key |-> Some("storage_unit_1_charge_discharge_power"),
       battery_2_key |-> Some("storage_unit_2_charge_discharge_power")]>>

RECURSIVE get_pv_entity_descriptions_loop(_, _)
get_pv_entity_descriptions_loop(idx, count) ==
    IF idx > count THEN <<>>
    ELSE <<"pv_" \o fmt_02d(idx) \o "_voltage", "pv_" \o fmt_02d(idx) \o "_current">>
             \o get_pv_entity_descriptions_loop(idx + 1, count)

\* get_pv_entity_descriptions: the assert on the count, and the keys
get_pv_entity_descriptions_raises(count) == ~(1 <= count /\ count <= 24)
get_pv_entity_descriptions(count) == get_pv_entity_descriptions_loop(1, count)

\* a coordinator of a bridge: all coordinators of one bridge are of that bridge
Coordinator(ucs, name) == [bridge |-> ucs.bridge.serial_number, name |-> name]

\* HuaweiSolarSensorEntity.__init__ and the constructors of the schedule
\* entities and of the forcible-charge entity, which all set
\* _attr_unique_id = f"{bridge.serial_number}_{key}"
RegisterEntity(cls, coordinator, key, device) ==
    [cls |-> cls, coordinator |-> coordinator, key |-> key, device_info |-> device,
     unique_id |-> coordinator.bridge \o "_" \o key]

\* HuaweiSolarOptimizerSensorEntity.__init__
OptimizerEntity(coordinator, key, device_info) ==
    [cls |-> "HuaweiSolarOptimizerSensorEntity", coordinator |-> coordinator,
     key |-> key, device_info |-> device_info.name,
     unique_id |-> device_info.name \o "_" \o key]

\* HuaweiSolarSensorEntity(coordinator, description, device) for each description
SensorEntitiesFor(coordinator, descriptions, device) ==
    [i \in DOMAIN descriptions |->
        RegisterEntity("HuaweiSolarSensorEntity", coordinator, descriptions[i], device)]

\* the entities on the inverter coordinator
inverter_entities(ucs) ==
    LET coordinator == Coordinator(ucs, "inverter_update_coordinator")
    IN  SensorEntitiesFor(coordinator, INVERTER_SENSOR_DESCRIPTIONS, "inverter")
        \o <<RegisterEntity("HuaweiSolarAlarmSensorEntity", coordinator, "ALARMS", "inverter")>>
        \o SensorEntitiesFor(coordinator,
                             get_pv_entity_descriptions(ucs.bridge.pv_string_count),
                             "inverter")
        \o (IF ucs.bridge.has_optimizers
            THEN SensorEntitiesFor(coordinator, OPTIMIZER_SENSOR_DESCRIPTIONS, "inverter")
            ELSE <<>>)

\* as the meter entities, but with both sets for a three-phase meter
power_meter_entities_with_both_sets(ucs) ==
    LET coordinator == Coordinator(ucs, "power_meter_update_coordinator")
        single == SensorEntitiesFor(coordinator, SINGLE_PHASE_METER_ENTITY_DESCRIPTIONS,
                                    "power_meter")
        three == SensorEntitiesFor(coordinator, THREE_PHASE_METER_ENTITY_DESCRIPTIONS,
                                   "power_meter")
    IN  IF ucs.bridge.power_meter_type = Some(SINGLE_PHASE) THEN single
        ELSE IF ucs.bridge.power_meter_type = Some(THREE_PHASE) THEN single \o three
        ELSE <<>>

\* the entities on the power meter coordinator, and the asserts of the branches
power_meter_raises(ucs) ==
    /\ ucs.bridge.power_meter_type \in {Some(SINGLE_PHASE), Some(THREE_PHASE)}
    /\ \/ ~ucs.power_meter_update_coordinator
       \/ ~ucs.device_infos.power_meter
power_meter_entities(ucs) ==
    LET coordinator == Coordinator(ucs, "power_meter_update_coordinator")
    IN  IF ucs.bridge.power_meter_type = Some(SINGLE_PHASE)
        THEN SensorEntitiesFor(coordinator, SINGLE_PHASE_METER_ENTITY_DESCRIPTIONS,
                               "power_meter")
        ELSE IF ucs.bridge.power_meter_type = Some(THREE_PHASE)
        THEN SensorEntitiesFor(coordinator, THREE_PHASE_METER_ENTITY_DESCRIPTIONS,
                               "power_meter")
        ELSE <<>>

\* the schedule entities and the forcible-charge entity
configuration_entities(ucs) ==
    LET coordinator == Coordinator(ucs, "configuration_update_coordinator")
        device == "connected_energy_storage"
    IN  IF ucs.configuration_update_coordinator
        THEN <<RegisterEntity("HuaweiSolarTOUPricePeriodsSensorEntity", coordinator,
                              STORAGE_TIME_OF_USE_CHARGING_AND_DISCHARGING_PERIODS, device),
               RegisterEntity("HuaweiSolarFixedChargingPeriodsSensorEntity", coordinator,
                              STORAGE_FIXED_CHARGING_AND_DISCHARGING_PERIODS, device),
               RegisterEntity("HuaweiSolarForcibleChargeEntity", coordinator,
                              STORAGE_FORCIBLE_CHARGE_DISCHARGE_WRITE, device)>>
             \o (IF ucs.bridge.supports_capacity_control
                 THEN <<RegisterEntity("HuaweiSolarCapacityControlPeriodsSensorEntity",
                                       coordinator, STORAGE_CAPACITY_CONTROL_PERIODS, device)>>
                 ELSE <<>>)
        ELSE <<>>

\* the key of a template for the battery
battery_key(template, battery) ==
    IF battery = "battery_1" THEN template.battery_1_key ELSE template.battery_2_key

\* as the template sensors, but without the test of the battery's device info
battery_template_entities_of_any_battery(ucs, battery) ==
    LET coordinator == Coordinator(ucs, "energy_storage_update_coordinator")
        templates == SelectSeq(BATTERY_TEMPLATE_SENSOR_DESCRIPTIONS,
                               LAMBDA template : battery_key(template, battery) # None)
    IN  [i \in DOMAIN templates |->
            RegisterEntity("HuaweiSolarSensorEntity", coordinator,
                           battery_key(templates[i], battery)[1], battery)]

\* the sensors of one battery, from the templates with a key for it
battery_template_entities(ucs, battery) ==
    LET coordinator == Coordinator(ucs, "energy_storage_update_coordinator")
        templates == SelectSeq(BATTERY_TEMPLATE_SENSOR_DESCRIPTIONS,
                               LAMBDA template : battery_key(template, battery) # None)
    IN  IF ucs.device_infos[battery]
        THEN [i \in DOMAIN templates |->
                 RegisterEntity("HuaweiSolarSensorEntity", coordinator,
                                battery_key(templates[i], battery)[1], battery)]
        ELSE <<>>

\* the entities of the energy storage, and the asserts of the branch
energy_storage_raises(ucs) ==
    /\ ucs.bridge.battery_type # StorageProductModel_NONE
    /\ \/ ~ucs.energy_storage_update_coordinator
       \/ ~ucs.device_infos.connected_energy_storage
energy_storage_entities(ucs) ==
    IF ucs.bridge.battery_type # StorageProductModel_NONE
    THEN SensorEntitiesFor(Coordinator(ucs, "energy_storage_update_coordinator"),
                           BATTERIES_SENSOR_DESCRIPTIONS, "connected_energy_storage")
         \o configuration_entities(ucs)
         \o battery_template_entities(ucs, "battery_1")
         \o battery_template_entities(ucs, "battery_2")
    ELSE <<>>

RECURSIVE Flatten(_)
Flatten(seqs) == IF seqs = <<>> THEN <<>> ELSE Head(seqs) \o Flatten(Tail(seqs))

\* the sensors of the optimizers, in the order of optimizer_device_infos
optimizer_entities(ucs) ==
    IF ucs.optimizer_update_coordinator # None
    THEN LET optimizer_device_infos == ucs.optimizer_update_coordinator[1]
             coordinator == Coordinator(ucs, "optimizer_update_coordinator")
         IN  Flatten([i \in DOMAIN optimizer_device_infos |->
                 [k \in DOMAIN OPTIMIZER_DETAIL_SENSOR_DESCRIPTIONS |->
                     OptimizerEntity(coordinator, OPTIMIZER_DETAIL_SENSOR_DESCRIPTIONS[k],
                                     optimizer_device_infos[i])]])
    ELSE <<>>

\* one pass of the loop over the bridges
bridge_raises(ucs) ==
    \/ get_pv_entity_descriptions_raises(ucs.bridge.pv_string_count)
    \/ power_meter_raises(ucs)
    \/ energy_storage_raises(ucs)
bridge_entities(ucs) ==
    inverter_entities(ucs) \o power_meter_entities(ucs)
        \o energy_storage_entities(ucs) \o optimizer_entities(ucs)

\* async_setup_entry: the entities given to async_add_entities; an assert that
\* fails ends the setup before any entity is added
async_setup_entry(update_coordinators) ==
    IF \E i \in DOMAIN update_coordinators : bridge_raises(update_coordinators[i])
    THEN [raised |-> TRUE, entities |-> <<>>]
    ELSE [raised |-> FALSE,
          entities |-> Flatten([i \in DOMAIN update_coordinators |->
                                   bridge_entities(update_coordinators[i])])]

\* the capabilities of the bridges of the model
UpdateCoordinators(serial_number) ==
    [bridge : [serial_number : {serial_number},
               pv_string_count : 1..MaxPvStrings,
               has_optimizers : BOOLEAN,
               power_meter_type : Option({SINGLE_PHASE, THREE_PHASE}),
               battery_type : {StorageProductModel_NONE,
                               StorageProductModel_HUAWEI_LUNA2000},
               supports_capacity_control : BOOLEAN],
     power_meter_update_coordinator : BOOLEAN,
     energy_storage_update_coordinator : BOOLEAN,
     configuration_update_coordinator : BOOLEAN,
     optimizer_update_coordinator :
         Option({<<>>, <<[id |-> 1, name |-> "optimizer_1"]>>,
                 <<[id |-> 1, name |-> "optimizer_1"],
                   [id |-> 2, name |-> "optimizer_2"]>>}),
     device_infos : [power_meter : BOOLEAN, connected_energy_storage : BOOLEAN,
                     battery_1 : BOOLEAN, battery_2 : BOOLEAN]]

\* a second bridge: an inverter with a three-phase meter and two batteries
SecondBridge ==
    [bridge |-> [serial_number |-> "HV2", pv_string_count |-> 1,
                 has_optimizers |-> FALSE, power_meter_type |-> Some(THREE_PHASE),
                 battery_type |-> StorageProductModel_HUAWEI_LUNA2000,
                 supports_capacity_control |-> TRUE],
     power_meter_update_coordinator |-> TRUE,
     energy_storage_update_coordinator |-> TRUE,
     configuration_update_coordinator |-> TRUE,
     optimizer_update_coordinator |-> None,
     device_infos |-> [power_meter |-> TRUE, connected_energy_storage |-> TRUE,
                       battery_1 |-> TRUE, battery_2 |-> TRUE]]

\* the entry's update coordinators: one bridge, or two
SetupInputs ==
    {<<ucs>> : ucs \in UpdateCoordinators("HV1")}
    \cup {<<ucs, SecondBridge>> : ucs \in UpdateCoordinators("HV1")}

InitSetup ==
    /\ data = EmptyDict
    /\ optimizer_data = EmptyDict
    /\ ents = [e \in Entities |-> NewEntity(Unset)]
    /\ last_cycle = "none"
    /\ enum_str = "value"
    /\ pending = <<>>
    /\ res = None
    /\ \E update_coordinators \in SetupInputs :
           arg = [fn |-> "async_setup_entry", v |-> update_coordinators]

CallAsyncSetupEntry ==
    call("async_setup_entry", async_setup_entry(arg.v))

SpecSetup == InitSetup /\ [][CallAsyncSetupEntry]_vars

(***************************************************************************)
(* Properties.                                                             *)
(***************************************************************************)
Delivered == last_cycle # "none"
Present(r) == r \in DOMAIN data
AlarmRegisters == {ALARM_1, ALARM_2, ALARM_3}
ForcibleRegisters == Range(REGISTER_NAMES)

\* the register of a generic sensor or of a schedule entity
RegisterOf(e) == register_key(e)

\* C1: after a delivery a generic sensor and a schedule entity are available iff
\* their register is in the snapshot, the forcible-charge entity iff all six of
\* its registers are.
C1_AvailableIffRegistersPresent ==
    Delivered =>
        /\ \A e \in SensorEntities \cup ScheduleEntities :
               ents[e].available <=> Present(RegisterOf(e))
        /\ ents[FORCIBLE_CHARGE].available <=> \A r \in ForcibleRegisters : Present(r)

C1_Witness ==
    /\ last_cycle = "success"
    /\ Cardinality({r \in ForcibleRegisters : Present(r)}) = 5
    /\ ~ents[FORCIBLE_CHARGE].available
    /\ ents[STATE_2_1].available
    /\ ents[TOU].available

\* C2: after a delivery the alarm entity is available iff at least one of the
\* three alarm registers is in the snapshot, also when the present registers
\* hold no alarm.
C2_AlarmAvailableIffSomeRegisterPresent ==
    Delivered =>
        (ents[ALARMS].available <=> \E r \in AlarmRegisters : Present(r))

C2_Witness ==
    /\ last_cycle = "success"
    /\ Cardinality({r \in AlarmRegisters : Present(r)}) = 2
    /\ \A r \in AlarmRegisters : Present(r) => data[r] = <<>>
    /\ ents[ALARMS].available

\* C3 as stated: each of the two entities over several registers is available
\* whenever at least one of its registers is in the snapshot.
C3_Original ==
    Delivered =>
        /\ (\E r \in AlarmRegisters : Present(r)) => ents[ALARMS].available
        /\ (\E r \in ForcibleRegisters : Present(r)) => ents[FORCIBLE_CHARGE].available

\* C3 amended: the alarm entity is available whenever at least one of its three
\* registers is in the snapshot; the forcible-charge entity is available
\* whenever all six of its registers are, and unavailable when at least one of
\* the six is missing.
C3_AlarmSomeForcibleAll ==
    Delivered =>
        /\ (\E r \in AlarmRegisters : Present(r)) => ents[ALARMS].available
        /\ (\A r \in ForcibleRegisters : Present(r)) => ents[FORCIBLE_CHARGE].available
        /\ (\E r \in ForcibleRegisters : ~Present(r)) => ~ents[FORCIBLE_CHARGE].available

C3_Witness ==
    /\ last_cycle = "success"
    /\ \E r \in ForcibleRegisters : Present(r)
    /\ \E r \in ForcibleRegisters : ~Present(r)
    /\ ~ents[FORCIBLE_CHARGE].available
    /\ ents[ALARMS].available

\* C4: an entity that a delivery leaves unavailable has no value, whatever its
\* kind.
C4_UnavailableHasNoValue ==
    Delivered =>
        \A e \in Entities : ~ents[e].available => ents[e].native_value = None

\* the entity shows no auxiliary attribute
NoAttributes(e) == ents[e].attrs \in {Unset, EmptyDict}

\* C5: a schedule entity or the forcible-charge entity that a delivery leaves
\* unavailable has no auxiliary attributes: none of an earlier cycle is kept.
C5_UnavailableHasNoAttributes ==
    Delivered =>
        \A e \in ScheduleEntities \cup {FORCIBLE_CHARGE} :
            ~ents[e].available => NoAttributes(e)

\* C6: after a failed cycle every entity of every kind is unavailable and no
\* handler raised; after a successful cycle, also one that follows a failed
\* cycle, every entity whose registers are in the snapshot is available (an
\* optimizer sensor: whose optimizer is in the data and, for a sensor other than
\* running_status, not offline).
C6_FailureThenRecovery ==
    /\ last_cycle = "failure" =>
           \A e \in Entities : ~ents[e].available /\ ~ents[e].raised
    /\ last_cycle = "success" =>
           /\ \A e \in SensorEntities \cup ScheduleEntities :
                  Present(RegisterOf(e)) => ents[e].available
           /\ (\E r \in AlarmRegisters : Present(r)) => ents[ALARMS].available
           /\ (\A r \in ForcibleRegisters : Present(r)) =>
                  ents[FORCIBLE_CHARGE].available
           /\ \A e \in OptimizerEntities :
                  (/\ optimizer_id(e) \in DOMAIN optimizer_data
                   /\ \/ e = OPTIMIZER_STATUS
                      \/ optimizer_data[optimizer_id(e)].running_status # OFFLINE)
                      => ents[e].available

\* the text a schedule entity shows for one entry of its list
EntryText(e, entry) ==
    CASE e = TOU /\ entry.cls = "LG_RESU_TimeOfUsePeriod" ->
             _lg_resu_period_to_text(entry)
      [] e = TOU /\ entry.cls = "HUAWEI_LUNA2000_TimeOfUsePeriod" ->
             _huawei_luna2000_period_to_text(entry)
      [] e = CAPACITY_CONTROL -> capacity_control_period_to_text(entry)
      [] e = FIXED_CHARGING -> fixed_charging_period_to_text(entry)

\* C7: a schedule entity that is delivered a list of N >= 1 entries has value N
\* and exactly the auxiliary attributes Period 1 .. Period N, Period k being the
\* text of the k-th entry of the list.
C7_PeriodsInInputOrder ==
    Delivered =>
        \A e \in ScheduleEntities :
            (Present(e) /\ Len(data[e]) >= 1) =>
                LET N == Len(data[e])
                IN  /\ ents[e].native_value = Some(N)
                    /\ DOMAIN ents[e].attrs = {"Period " \o ToString(k) : k \in 1..N}
                    /\ \A k \in 1..N :
                           ents[e].attrs["Period " \o ToString(k)] = EntryText(e, data[e][k])

C7_Witness ==
    /\ last_cycle = "success"
    /\ Present(TOU)
    /\ Len(data[TOU]) = 2
    /\ data[TOU][1] # data[TOU][2]
    /\ data[TOU][1].cls = "HUAWEI_LUNA2000_TimeOfUsePeriod"
    /\ ents[TOU].attrs["Period 2"] = "17:00-23:00/67/-"

\* C8: a schedule entity that is delivered an empty list ends its update with
\* value 0 and the empty mapping as auxiliary attributes, whether or not it had
\* entries before the delivery.
C8_EmptyListClearsPeriods ==
    Delivered =>
        \A e \in ScheduleEntities :
            (Present(e) /\ data[e] = <<>>) =>
                /\ ~ents[e].raised
                /\ ents[e].native_value = Some(0)
                /\ ents[e].attrs = EmptyDict

\* two decimal digits of n < 100, HH:MM of a minute of the day, and the labels
\* of a day mask, written out
TwoDigits(n) == ToString(n \div 10) \o ToString(n % 10)
ClockText(t) == TwoDigits(t \div 60) \o ":" \o TwoDigits(t % 60)
WindowText(period) == ClockText(period.start_time) \o "-" \o ClockText(period.end_time)
DayLabels(days) ==
    (IF days[2] THEN "1" ELSE "") \o (IF days[3] THEN "2" ELSE "")
        \o (IF days[4] THEN "3" ELSE "") \o (IF days[5] THEN "4" ELSE "")
        \o (IF days[6] THEN "5" ELSE "") \o (IF days[7] THEN "6" ELSE "")
        \o (IF days[1] THEN "7" ELSE "")

\* C9: an entry is rendered HH:MM-HH:MM followed by /{price} for a price period,
\* /{days}/+ or /{days}/- (+ for the flag CHARGE only) for a day-of-week period,
\* /{days}/{power}W for a capacity-control period and /{power}W for a fixed
\* charge/discharge period.
C9_EntryFormats ==
    res # None =>
        CASE arg.fn = "_lg_resu_period_to_text" ->
                 res[1] = WindowText(arg.v) \o "/" \o ToString(arg.v.electricity_price)
          [] arg.fn = "_huawei_luna2000_period_to_text" ->
                 res[1] = WindowText(arg.v) \o "/" \o DayLabels(arg.v.days_effective)
                              \o (IF arg.v.charge_flag = "CHARGE" THEN "/+" ELSE "/-")
          [] arg.fn = "capacity_control_period_to_text" ->
                 res[1] = WindowText(arg.v) \o "/" \o DayLabels(arg.v.days_effective)
                              \o "/" \o ToString(arg.v.power) \o "W"
          [] arg.fn = "fixed_charging_period_to_text" ->
                 res[1] = WindowText(arg.v) \o "/" \o ToString(arg.v.power) \o "W"
          [] OTHER -> TRUE

C9_Witness ==
    /\ res = Some("00:09-10:00/12345/-")
    /\ arg.fn = "_huawei_luna2000_period_to_text"
    /\ arg.v.charge_flag = "UNKNOWN"

\* C10: _days_effective_to_str gives the labels of the days set, in the order
\* 1 .. 7, index k of the mask being label k for k in 1 .. 6 and index 0 label 7.
C10_DayLabels ==
    (res # None /\ arg.fn = "_days_effective_to_str") =>
        /\ res[1] = DayLabels(arg.v)
        /\ arg.v = <<TRUE, FALSE, FALSE, FALSE, FALSE, FALSE, FALSE>> => res[1] = "7"
        /\ arg.v = <<FALSE, TRUE, FALSE, TRUE, FALSE, FALSE, FALSE>> => res[1] = "13"
        /\ arg.v = <<TRUE, TRUE, TRUE, TRUE, TRUE, TRUE, TRUE>> => res[1] = "1234567"
        /\ arg.v = <<FALSE, FALSE, FALSE, FALSE, FALSE, FALSE, FALSE>> => res[1] = ""

C10_Witness ==
    /\ res = Some("13")
    /\ arg.fn = "_days_effective_to_str"
    /\ arg.v = <<FALSE, TRUE, FALSE, TRUE, FALSE, FALSE, FALSE>>

\* C11: when the six registers of the forcible-charge entity are present its
\* value follows the table: "Stopped" for mode STOP whatever the other five
\* are, the charge texts with charge_power and the discharge texts with
\* discharge_power, "until {target_soc}%" for target SOC and "for {duration}
\* minutes" otherwise.
C11_ForcibleDecisionTable ==
    (Delivered /\ \A r \in ForcibleRegisters : Present(r)) =>
        LET mode == data[STORAGE_FORCIBLE_CHARGE_DISCHARGE_WRITE]
            target == data[STORAGE_FORCIBLE_CHARGE_DISCHARGE_SETTING_MODE]
            power == IF mode = CHARGE THEN data[STORAGE_FORCIBLE_CHARGE_POWER]
                     ELSE data[STORAGE_FORCIBLE_DISCHARGE_POWER]
            verb == IF mode = CHARGE THEN "Charging" ELSE "Discharging"
            goal == IF target = SOC
                    THEN "until " \o ToString(data[STORAGE_FORCIBLE_CHARGE_DISCHARGE_SOC]) \o "%"
                    ELSE "for "
                             \o ToString(data[STORAGE_FORCED_CHARGING_AND_DISCHARGING_PERIOD])
                             \o " minutes"
        IN  /\ mode = STOP => ents[FORCIBLE_CHARGE].native_value = Some("Stopped")
            /\ mode \in {CHARGE, DISCHARGE} =>
                   ents[FORCIBLE_CHARGE].native_value =
                       Some(verb \o " at " \o ToString(power) \o "W " \o goal)
            /\ (/\ mode = CHARGE
                /\ target = SOC
                /\ data[STORAGE_FORCIBLE_CHARGE_POWER] = 2000
                /\ data[STORAGE_FORCIBLE_CHARGE_DISCHARGE_SOC] = 80) =>
                   ents[FORCIBLE_CHARGE].native_value = Some("Charging at 2000W until 80%")

C11_Witness ==
    /\ last_cycle = "success"
    /\ \A r \in ForcibleRegisters : Present(r)
    /\ data[STORAGE_FORCIBLE_CHARGE_DISCHARGE_WRITE] = DISCHARGE
    /\ data[STORAGE_FORCIBLE_CHARGE_DISCHARGE_SETTING_MODE] = TIME
    /\ data[STORAGE_FORCIBLE_CHARGE_POWER] = 2000
    /\ ents[FORCIBLE_CHARGE].native_value = Some("Discharging at 700W for 60 minutes")

\* equality of two values of any types (a str never equals an enumeration
\* member or a number)
py_eq(a, b) == ToString(a) = ToString(b)

ForcibleAttributeKeys ==
    {"mode", "setting", "charge_power", "discharge_power", "target_soc", "duration"}
ForcibleNumbersVerbatim ==
    /\ ents[FORCIBLE_CHARGE].attrs.charge_power = data[STORAGE_FORCIBLE_CHARGE_POWER]
    /\ ents[FORCIBLE_CHARGE].attrs.discharge_power = data[STORAGE_FORCIBLE_DISCHARGE_POWER]
    /\ ents[FORCIBLE_CHARGE].attrs.target_soc = data[STORAGE_FORCIBLE_CHARGE_DISCHARGE_SOC]
    /\ ents[FORCIBLE_CHARGE].attrs.duration =
           data[STORAGE_FORCED_CHARGING_AND_DISCHARGING_PERIOD]

\* C12 as stated: whenever the forcible-charge entity is available its
\* attributes are the six raw inputs, each the very value read from the snapshot.
C12_Original ==
    (Delivered /\ ents[FORCIBLE_CHARGE].available) =>
        /\ DOMAIN ents[FORCIBLE_CHARGE].attrs = ForcibleAttributeKeys
        /\ ForcibleNumbersVerbatim
        /\ py_eq(ents[FORCIBLE_CHARGE].attrs.mode,
                 data[STORAGE_FORCIBLE_CHARGE_DISCHARGE_WRITE])
        /\ py_eq(ents[FORCIBLE_CHARGE].attrs.setting,
                 data[STORAGE_FORCIBLE_CHARGE_DISCHARGE_SETTING_MODE])

\* the text str() gives of an enumeration member of the class named
EnumText(class, member) ==
    IF enum_str = "value" THEN ToString(member.value) ELSE class \o "." \o member.name

\* C12: whenever the forcible-charge entity is available its attributes have
\* exactly the six keys; charge_power, discharge_power, target_soc and duration
\* are the values read, mode and setting are the str() texts of the members
\* read, in every mode, STOP included.
C12_ForcibleAttributes ==
    (Delivered /\ ents[FORCIBLE_CHARGE].available) =>
        /\ DOMAIN ents[FORCIBLE_CHARGE].attrs = ForcibleAttributeKeys
        /\ ForcibleNumbersVerbatim
        /\ ents[FORCIBLE_CHARGE].attrs.mode =
               EnumText("StorageForcibleChargeDischarge",
                        data[STORAGE_FORCIBLE_CHARGE_DISCHARGE_WRITE])
        /\ ents[FORCIBLE_CHARGE].attrs.setting =
               EnumText("StorageForcibleChargeDischargeTargetMode",
                        data[STORAGE_FORCIBLE_CHARGE_DISCHARGE_SETTING_MODE])

C12_Witness ==
    /\ last_cycle = "success"
    /\ ents[FORCIBLE_CHARGE].available
    /\ data[STORAGE_FORCIBLE_CHARGE_DISCHARGE_WRITE] = STOP
    /\ data[STORAGE_FORCIBLE_CHARGE_DISCHARGE_SETTING_MODE] = TIME
    /\ ents[FORCIBLE_CHARGE].attrs.mode = "0"
    /\ ents[FORCIBLE_CHARGE].attrs.target_soc = 80

\* C13: a delivery with the six forcible-charge registers present and a mode
\* outside {STOP, CHARGE, DISCHARGE} ends the handler in the assertion: the
\* state is not written, and availability, value and attributes stay what they
\* were before the delivery (the entity is not made unavailable).
C13_UnknownModeAsserts ==
    [][(/\ last_cycle' = "success"
        /\ \A r \in ForcibleRegisters : r \in DOMAIN data'
        /\ data'[STORAGE_FORCIBLE_CHARGE_DISCHARGE_WRITE] \notin StorageForcibleChargeDischarge)
       => /\ ents'[FORCIBLE_CHARGE].raised
          /\ ents'[FORCIBLE_CHARGE].writes = 0
          /\ ents'[FORCIBLE_CHARGE].available = ents[FORCIBLE_CHARGE].available
          /\ ents'[FORCIBLE_CHARGE].native_value = ents[FORCIBLE_CHARGE].native_value
          /\ ents'[FORCIBLE_CHARGE].attrs = ents[FORCIBLE_CHARGE].attrs]_vars

C13_Witness ==
    /\ last_cycle = "success"
    /\ \A r \in ForcibleRegisters : Present(r)
    /\ data[STORAGE_FORCIBLE_CHARGE_DISCHARGE_WRITE] = UnknownMode
    /\ ents[FORCIBLE_CHARGE].raised
    /\ ents[FORCIBLE_CHARGE].writes = 0
    /\ ents[FORCIBLE_CHARGE].available
    /\ ents[FORCIBLE_CHARGE].native_value = Some("Stopped")

\* the alarms of an alarm register: none when the register is not in the data
AlarmsOf(r) == IF Present(r) THEN data[r] ELSE <<>>
CombinedAlarms == AlarmsOf(ALARM_1) \o AlarmsOf(ALARM_2) \o AlarmsOf(ALARM_3)

\* C14: after a successful cycle the value of the alarm entity is "None" when
\* the alarms of the registers present, taken in the order ALARM_1, ALARM_2,
\* ALARM_3 and in the order of each register's list, are none, and else their
\* texts "[level] id: name" joined by ", "; a register that is absent adds
\* nothing.
C14_AlarmsInRegisterOrder ==
    last_cycle = "success" =>
        /\ CombinedAlarms = <<>> => ents[ALARMS].native_value = Some("None")
        /\ CombinedAlarms # <<>> =>
               ents[ALARMS].native_value =
                   Some(join(", ", [i \in DOMAIN CombinedAlarms |->
                       "[" \o ToString(CombinedAlarms[i].level) \o "] "
                           \o ToString(CombinedAlarms[i].id) \o ": "
                           \o CombinedAlarms[i].name]))
        /\ CombinedAlarms = <<Alarm1>> =>
               ents[ALARMS].native_value = Some("[2] 17: GridFault")
        /\ CombinedAlarms = <<Alarm2, Alarm1, Alarm3>> =>
               ents[ALARMS].native_value =
                   Some("[1] 40: FanFault, [2] 17: GridFault, [3] 71: Overheat")

C14_Witness ==
    /\ last_cycle = "success"
    /\ Present(ALARM_1)
    /\ data[ALARM_1] = <<Alarm2, Alarm1>>
    /\ ~Present(ALARM_2)
    /\ Present(ALARM_3)
    /\ data[ALARM_3] = <<Alarm3>>
    /\ ents[ALARMS].native_value =
           Some("[1] 40: FanFault, [2] 17: GridFault, [3] 71: Overheat")

\* the register and the index a key "R#i" names
KeyRegister(key) ==
    CASE key \in {STATE_2_0, STATE_2_1, STATE_2_2} -> STATE_2
      [] key \in {STATE_3_0, STATE_3_1} -> STATE_3
KeyIndex(key) == CHOOSE i \in 0..9 : ToString(i) = SubSeq(key, Len(key), Len(key))

\* C15: each entity of a key "R#i" names R as the register of its context and
\* looks R up in the data, and after a delivery with R present its value is
\* element i of R's list.
C15_IndexedElement ==
    \A e \in IndexedEntities :
        /\ e = KeyRegister(e) \o "#" \o ToString(KeyIndex(e))
        /\ context(e).register_names = <<KeyRegister(e)>>
        /\ register_key(e) = KeyRegister(e)
        /\ (Delivered /\ Present(KeyRegister(e))) =>
               /\ ents[e].available
               /\ ents[e].native_value = Some(data[KeyRegister(e)][KeyIndex(e) + 1])

C15_Witness ==
    /\ last_cycle = "success"
    /\ Present(STATE_2)
    /\ Present(STATE_3)
    /\ data[STATE_2] = <<"Unlocked", "PV disconnected", "No DSP data collection">>
    /\ ents[STATE_2_0].native_value = Some("Unlocked")
    /\ ents[STATE_2_1].native_value = Some("PV disconnected")
    /\ ents[STATE_2_2].native_value = Some("No DSP data collection")
    /\ ents[STATE_3_0].native_value = Some("On-grid")
    /\ ents[STATE_3_1].native_value = Some("Off-grid switch disabled")

\* C16: an index that is out of range for the register's list never shows
\* during a delivery: the handler of an entity of a key "R#i" that was
\* constructed does not raise, and with R present the entity is available.
C16_IndexCheckedAtConstruction ==
    Delivered =>
        \A e \in IndexedEntities :
            /\ ~ents[e].raised
            /\ Present(register_key(e)) => ents[e].available

\* what an entity shows: availability, value and auxiliary attributes
Shown(entity) ==
    [available |-> entity.available, native_value |-> entity.native_value,
     attrs |-> entity.attrs]

\* C17: a delivery of the data the entities were delivered just before leaves
\* availability, value and attributes of every entity as they were.
C17_Idempotent ==
    [][(/\ Delivered
        /\ last_cycle' = last_cycle
        /\ data' = data
        /\ optimizer_data' = optimizer_data)
       => \A e \in Entities : Shown(ents'[e]) = Shown(ents[e])]_vars

C17_Witness ==
    /\ last_cycle = "success"
    /\ Present(TOU)
    /\ Len(data[TOU]) = MaxPeriods
    /\ ents[TOU].native_value = Some(MaxPeriods)
    /\ \A e \in Entities :
           Shown(notify(e, ents[e], IF e \in OptimizerEntities THEN optimizer_data ELSE data))
               = Shown(ents[e])

\* what the host is given of an entity: attributes never assigned show as none
Published(entity) ==
    [available |-> entity.available, native_value |-> entity.native_value,
     attrs |-> IF entity.attrs = Unset THEN EmptyDict ELSE entity.attrs]

\* what a new entity shows when it is delivered the data as its first delivery
FirstDelivery(e, d) ==
    {Published(notify(e, NewEntity(host_attrs), d)) : host_attrs \in {Unset, EmptyDict}}

\* C18: what an entity shows after a delivery is decided by the data delivered
\* alone: it is what the entity shows when the same data is its first
\* delivery, whatever was delivered before.
C18_FunctionOfSnapshot ==
    Delivered =>
        \A e \in Entities :
            Published(ents[e]) \in
                FirstDelivery(e, IF e \in OptimizerEntities THEN optimizer_data ELSE data)

\* C19: in every notification the handler of every entity calls
\* async_write_ha_state exactly once, as its last statement, on the path that
\* leaves the entity available and on the one that leaves it unavailable.
C19_WritesOnce ==
    Delivered => \A e \in Entities : ents[e].writes = 1 /\ ~ents[e].raised

\* the registers an entity depends on
DependsOn(e) ==
    CASE e = ALARMS -> AlarmRegisters
      [] e = FORCIBLE_CHARGE -> ForcibleRegisters
      [] OTHER -> {register_key(e)}

\* the data with only the registers of the entity
OwnData(e) == [r \in DependsOn(e) \cap DOMAIN data |-> data[r]]

\* the value the entity renders from its own registers
ValueFromOwnData(e) == notify(e, NewEntity(EmptyDict), OwnData(e)).native_value

\* C20 as stated: after a successful cycle exactly the entities with a register
\* missing from the snapshot are unavailable, and an entity with none missing
\* shows the value of its own registers.
C20_Original ==
    last_cycle = "success" =>
        \A e \in RegisterEntities :
            /\ ~ents[e].available <=> \E r \in DependsOn(e) : ~Present(r)
            /\ (\A r \in DependsOn(e) : Present(r)) =>
                   ents[e].native_value = ValueFromOwnData(e)

\* C20: after a successful cycle an entity other than the alarm entity is
\* unavailable exactly when one of its registers is missing from the snapshot,
\* the alarm entity exactly when its three registers are all missing, and an
\* entity with no register missing is available with the value of its own
\* registers, whichever other registers are missing.
C20_PartialFailurePerRegister ==
    last_cycle = "success" =>
        /\ \A e \in RegisterEntities \ {ALARMS} :
               ~ents[e].available <=> \E r \in DependsOn(e) : ~Present(r)
        /\ ~ents[ALARMS].available <=> \A r \in AlarmRegisters : ~Present(r)
        /\ \A e \in RegisterEntities :
               (\A r \in DependsOn(e) : Present(r)) =>
                   /\ ents[e].available
                   /\ ents[e].native_value = ValueFromOwnData(e)

C20_Witness ==
    /\ last_cycle = "success"
    /\ ~Present(ALARM_1)
    /\ Present(ALARM_2)
    /\ data[ALARM_2] = <<Alarm2>>
    /\ ents[ALARMS].available
    /\ ents[ALARMS].native_value = Some("[1] 40: FanFault")
    /\ ents[INPUT_POWER].available
    /\ ents[INPUT_POWER].native_value = Some(4200)
    /\ ents[FORCIBLE_CHARGE].available

\* the entity was called in the current cycle
Notified(e) == Delivered /\ e \in Range(Listeners) /\ e \notin Range(pending)

\* C21: within a cycle the entities that depend on one register and were
\* called agree on the register: they are all available or all unavailable,
\* as the register is in the coordinator's data or not, and each available one
\* shows its element of the one list the data holds.
C21_SameSnapshotWithinCycle ==
    \A e1 \in IndexedEntities, e2 \in IndexedEntities :
        (/\ Notified(e1)
         /\ Notified(e2)
         /\ register_key(e1) = register_key(e2)) =>
            /\ ents[e1].available <=> ents[e2].available
            /\ ents[e1].available <=> Present(register_key(e1))
            /\ ents[e1].available =>
                   /\ ents[e1].native_value =
                          Some(data[register_key(e1)][conversion_index(e1) + 1])
                   /\ ents[e2].native_value =
                          Some(data[register_key(e2)][conversion_index(e2) + 1])

C21_Witness ==
    /\ last_cycle = "success"
    /\ Notified(STATE_2_0)
    /\ Notified(STATE_2_1)
    /\ ~Notified(STATE_2_2)
    /\ ents[STATE_2_0].native_value = Some("Unlocked")
    /\ ents[STATE_2_1].native_value = Some("PV disconnected")
    /\ ents[STATE_2_2].native_value = Some("DSP data collection")

\* C22: a non-empty time-of-use list is rendered as its first entry tells:
\* every entry HH:MM-HH:MM/{price} when the first is a price period, every
\* entry HH:MM-HH:MM/{days}/{+ or -} when the first is a day-of-week period,
\* and the attributes of the delivery are these entries and no other.
C22_KindOfFirstEntry ==
    (Delivered /\ Present(TOU) /\ Len(data[TOU]) >= 1) =>
        LET periods == data[TOU]
            labels == {"Period " \o ToString(k) : k \in 1..Len(periods)}
            price_text(p) == WindowText(p) \o "/" \o ToString(p.electricity_price)
            days_text(p) == WindowText(p) \o "/" \o DayLabels(p.days_effective)
                                \o (IF p.charge_flag = ChargeFlag_CHARGE THEN "/+" ELSE "/-")
        IN  /\ periods[1].cls = "LG_RESU_TimeOfUsePeriod" =>
                   ents[TOU].attrs =
                       [l \in labels |->
                           price_text(periods[CHOOSE k \in 1..Len(periods) :
                                                  l = "Period " \o ToString(k)])]
            /\ periods[1].cls = "HUAWEI_LUNA2000_TimeOfUsePeriod" =>
                   ents[TOU].attrs =
                       [l \in labels |->
                           days_text(periods[CHOOSE k \in 1..Len(periods) :
                                                 l = "Period " \o ToString(k)])]

C22_Witness ==
    /\ last_cycle = "success"
    /\ Present(TOU)
    /\ Len(data[TOU]) = 1
    /\ data[TOU][1].cls = "HUAWEI_LUNA2000_TimeOfUsePeriod"
    /\ data[TOU][1].charge_flag = ChargeFlag_CHARGE
    /\ ents[TOU].attrs = [l \in {"Period 1"} |-> "01:00-05:05/12345/+"]

Digits == {"0", "1", "2", "3", "4", "5", "6", "7", "8", "9"}
DigitValue(c) == CHOOSE n \in 0..9 : ToString(n) = c
Char(text, i) == SubSeq(text, i, i)

\* C23: for a minute t of the day, 0 <= t <= 1439, _time_int_to_str gives five
\* characters HH:MM, two digits of t div 60 (00 .. 23), a colon and two digits
\* of t mod 60 (00 .. 59).
C23_TimeOfDayText ==
    (res # None /\ arg.fn = "_time_int_to_str") =>
        LET text == res[1]
            t == arg.v
        IN  /\ Len(text) = 5
            /\ Char(text, 3) = ":"
            /\ \A i \in {1, 2, 4, 5} : Char(text, i) \in Digits
            /\ 10 * DigitValue(Char(text, 1)) + DigitValue(Char(text, 2)) = t \div 60
            /\ 10 * DigitValue(Char(text, 4)) + DigitValue(Char(text, 5)) = t % 60
            /\ t \div 60 \in 0..23
            /\ t % 60 \in 0..59

C23_Witness ==
    /\ arg.fn = "_time_int_to_str"
    /\ arg.v = 485
    /\ res = Some("08:05")

Subscribed(e) == Range(subscription(e).register_names)

\* what a new entity shows of the data d
ShownOf(e, d) == Shown(notify(e, NewEntity(EmptyDict), d))

\* the data without the register r
Without(d, r) == [k \in DOMAIN d \ {r} |-> d[k]]

\* the data with the registers of S only
Only(d, S) == [k \in DOMAIN d \cap S |-> d[k]]

\* C24: the registers an entity subscribes to are those its handler looks up:
\* the names are the same, a register outside the subscription has no effect
\* on what the entity shows, and every register of the subscription has one
\* (when all of them are delivered, taking the register away from all of them
\* or from the register alone changes what the entity shows).
C24_SubscriptionIsLookupSet ==
    \A e \in RegisterEntities :
        /\ Subscribed(e) = DependsOn(e)
        /\ Delivered =>
               \A r \in DOMAIN data :
                   /\ r \notin Subscribed(e) => ShownOf(e, Without(data, r)) = ShownOf(e, data)
                   /\ (r \in Subscribed(e) /\ Subscribed(e) \subseteq DOMAIN data)
                          => \E S \in {Subscribed(e), {r}} :
                                 ShownOf(e, Only(data, S)) # ShownOf(e, Only(data, S \ {r}))

C24_Witness ==
    /\ last_cycle = "success"
    /\ AlarmRegisters \subseteq DOMAIN data
    /\ ForcibleRegisters \subseteq DOMAIN data
    /\ Present(STATE_2)
    /\ Present(STATE_3)
    /\ ents[FORCIBLE_CHARGE].available
    /\ ~ShownOf(FORCIBLE_CHARGE, Without(data, REGISTER_NAMES[1])).available
    /\ ShownOf(ALARMS, Only(data, {ALARM_2})).available
    /\ ~ShownOf(ALARMS, Only(data, {})).available
    /\ ents[STATE_2_1].available
    /\ ~ShownOf(STATE_2_1, Without(data, STATE_2)).available
    /\ ShownOf(STATE_2_1, Without(data, STATE_3)) = Shown(ents[STATE_2_1])

\* the field of the optimizer that an optimizer sensor shows
OptimizerField(e) == optimizer_data[optimizer_id(e)][optimizer_key(e)]

\* availability of the optimizer sensors after a successful cycle
OptimizerAvailability ==
    \A e \in OptimizerEntities :
        ents[e].available <=>
            /\ optimizer_id(e) \in DOMAIN optimizer_data
            /\ \/ e = OPTIMIZER_STATUS
               \/ optimizer_data[optimizer_id(e)].running_status # OFFLINE

\* C25 as stated: the value of every optimizer sensor is the field itself
C25_Original ==
    last_cycle = "success" =>
        /\ OptimizerAvailability
        /\ \A e \in OptimizerEntities :
               IF optimizer_id(e) \in DOMAIN optimizer_data
               THEN /\ ents[e].native_value # None
                    /\ py_eq(ents[e].native_value[1], OptimizerField(e))
               ELSE ents[e].native_value = None

\* C25: after a successful cycle an optimizer sensor is available iff its
\* optimizer is in the data and the sensor is the running_status sensor or the
\* optimizer is not offline; its value is empty iff the optimizer is not in the
\* data and else, offline or not, the optimizer's field: as it is for a sensor
\* without a conversion; for the alarm sensor the texts joined by ", ", or
\* "None" when there is no alarm.
C25_OptimizerSensor ==
    last_cycle = "success" =>
        /\ OptimizerAvailability
        /\ \A e \in OptimizerEntities :
               IF optimizer_id(e) \in DOMAIN optimizer_data
               THEN ents[e].native_value =
                        IF e = OPTIMIZER_ALARM
                        THEN IF OptimizerField(e) = <<>>
                             THEN Some("None")
                             ELSE Some(join(", ", OptimizerField(e)))
                        ELSE Some(OptimizerField(e))
               ELSE ents[e].native_value = None

C25_Witness ==
    /\ last_cycle = "success"
    /\ 1 \in DOMAIN optimizer_data
    /\ optimizer_data[1].running_status = OFFLINE
    /\ Len(optimizer_data[1].alarm) = 2
    /\ ents[OPTIMIZER_STATUS].available
    /\ ents[OPTIMIZER_STATUS].native_value = Some(OFFLINE)
    /\ ~ents[OPTIMIZER_POWER].available
    /\ ents[OPTIMIZER_POWER].native_value = Some(optimizer_data[1].output_power)
    /\ ~ents[OPTIMIZER_ALARM].available
    /\ ents[OPTIMIZER_ALARM].native_value = Some("Input overvoltage, Overtemperature")

\* C26: after a successful cycle with the six forcible-charge registers, the
\* mode CHARGE or DISCHARGE and a target mode other than SOC, be it TIME or a
\* value outside the enumeration, the handler has not raised, and the entity is
\* available with the text "<Charging|Discharging> at <power>W for <duration>
\* minutes" of the mode's own power.
C26_TargetModeNotValidated ==
    (/\ last_cycle = "success"
     /\ \A r \in ForcibleRegisters : Present(r)
     /\ data[STORAGE_FORCIBLE_CHARGE_DISCHARGE_WRITE] \in {CHARGE, DISCHARGE}
     /\ data[STORAGE_FORCIBLE_CHARGE_DISCHARGE_SETTING_MODE] # SOC) =>
        LET mode == data[STORAGE_FORCIBLE_CHARGE_DISCHARGE_WRITE]
            duration == data[STORAGE_FORCED_CHARGING_AND_DISCHARGING_PERIOD]
            text == IF mode = CHARGE
                    THEN "Charging at " \o ToString(data[STORAGE_FORCIBLE_CHARGE_POWER])
                    ELSE "Discharging at " \o ToString(data[STORAGE_FORCIBLE_DISCHARGE_POWER])
        IN  /\ ~ents[FORCIBLE_CHARGE].raised
            /\ ents[FORCIBLE_CHARGE].writes = 1
            /\ ents[FORCIBLE_CHARGE].available
            /\ ents[FORCIBLE_CHARGE].native_value =
                   Some(text \o "W for " \o ToString(duration) \o " minutes")

C26_Witness ==
    /\ last_cycle = "success"
    /\ \A r \in ForcibleRegisters : Present(r)
    /\ data[STORAGE_FORCIBLE_CHARGE_DISCHARGE_WRITE] = CHARGE
    /\ data[STORAGE_FORCIBLE_CHARGE_DISCHARGE_SETTING_MODE] = UnknownTargetMode
    /\ data[STORAGE_FORCIBLE_CHARGE_POWER] = 500
    /\ ~ents[FORCIBLE_CHARGE].raised
    /\ ents[FORCIBLE_CHARGE].available
    /\ ents[FORCIBLE_CHARGE].native_value = Some("Charging at 500W for 60 minutes")

\* the setup has run
SetupDone == arg.fn = "async_setup_entry" /\ res # None

\* the entities the setup made for a bridge, and those of them on a coordinator
EntitiesOfBridge(ucs) ==
    SelectSeq(res[1].entities,
              LAMBDA entity : entity.coordinator.bridge = ucs.bridge.serial_number)
OnCoordinator(entities, name) ==
    SelectSeq(entities, LAMBDA entity : entity.coordinator.name = name)
Keys(entities) == [i \in DOMAIN entities |-> entities[i].key]

ConfigurationClasses ==
    {"HuaweiSolarTOUPricePeriodsSensorEntity", "HuaweiSolarFixedChargingPeriodsSensorEntity",
     "HuaweiSolarForcibleChargeEntity", "HuaweiSolarCapacityControlPeriodsSensorEntity"}
StorageDevices == {"connected_energy_storage", "battery_1", "battery_2"}

\* the keys the templates define for a battery
DefinedKeys(battery) ==
    {battery_key(template, battery)[1] :
        template \in {t \in Range(BATTERY_TEMPLATE_SENSOR_DESCRIPTIONS) :
                         battery_key(t, battery) # None}}

\* C27: the entities the setup makes for a bridge are those it makes for the
\* bridge alone, whatever other bridge the entry has.  The sensors on the
\* power meter coordinator are the single-phase set, only for a single-phase
\* meter, or the three-phase set, only for a three-phase meter, or none.  With
\* battery type NONE there is no entity of the energy storage: none on the
\* energy storage or configuration coordinator, none of the schedule,
\* forcible-charge or capacity-control classes, none of a storage device.  An
\* entity of these classes exists only with a configuration coordinator, the
\* capacity-control entity only with supports_capacity_control too.  A sensor
\* of battery 1 or 2 exists only when the battery's device info does, and its
\* key is one the templates define for that battery.  The sensor of the number
\* of online optimizers exists only when the bridge has optimizers.
C27_EntitiesFollowCapabilities ==
    SetupDone =>
        \A k \in DOMAIN arg.v :
            LET ucs == arg.v[k]
                mine == EntitiesOfBridge(ucs)
                meters == Keys(OnCoordinator(mine, "power_meter_update_coordinator"))
            IN  /\ ~res[1].raised => mine = async_setup_entry(<<ucs>>).entities
                /\ meters \in {<<>>, SINGLE_PHASE_METER_ENTITY_DESCRIPTIONS,
                               THREE_PHASE_METER_ENTITY_DESCRIPTIONS}
                /\ meters = SINGLE_PHASE_METER_ENTITY_DESCRIPTIONS =>
                       ucs.bridge.power_meter_type = Some(SINGLE_PHASE)
                /\ meters = THREE_PHASE_METER_ENTITY_DESCRIPTIONS =>
                       ucs.bridge.power_meter_type = Some(THREE_PHASE)
                /\ \A i \in DOMAIN mine :
                       LET entity == mine[i]
                       IN  /\ ucs.bridge.battery_type = StorageProductModel_NONE =>
                                  /\ entity.coordinator.name \notin
                                         {"energy_storage_update_coordinator",
                                          "configuration_update_coordinator"}
                                  /\ entity.cls \notin ConfigurationClasses
                                  /\ entity.device_info \notin StorageDevices
                           /\ entity.cls \in ConfigurationClasses =>
                                  ucs.configuration_update_coordinator
                           /\ entity.cls = "HuaweiSolarCapacityControlPeriodsSensorEntity" =>
                                  ucs.bridge.supports_capacity_control
                           /\ entity.device_info \in {"battery_1", "battery_2"} =>
                                  /\ ucs.device_infos[entity.device_info]
                                  /\ entity.key \in DefinedKeys(entity.device_info)
                           /\ entity.key = "nb_online_optimizers" =>
                                  ucs.bridge.has_optimizers

C27_Witness ==
    /\ SetupDone
    /\ ~res[1].raised
    /\ Len(arg.v) = 1
    /\ arg.v[1].bridge.power_meter_type = Some(SINGLE_PHASE)
    /\ arg.v[1].bridge.battery_type = StorageProductModel_HUAWEI_LUNA2000
    /\ arg.v[1].configuration_update_coordinator
    /\ ~arg.v[1].bridge.supports_capacity_control
    /\ arg.v[1].device_infos.battery_2
    /\ ~arg.v[1].device_infos.battery_1
    /\ arg.v[1].optimizer_update_coordinator = None
    /\ ~arg.v[1].bridge.has_optimizers
    /\ arg.v[1].bridge.pv_string_count = 1
    /\ Len(res[1].entities) = 31 + 1 + 2 + 10 + 9 + 3 + 10
    /\ \E i \in DOMAIN res[1].entities :
           /\ res[1].entities[i].device_info = "battery_2"
           /\ res[1].entities[i].key = "storage_unit_2_running_status"
    /\ \A i \in DOMAIN res[1].entities :
           /\ res[1].entities[i].device_info # "battery_1"
           /\ res[1].entities[i].cls # "HuaweiSolarCapacityControlPeriodsSensorEntity"

\* the entities of the setup that are backed by registers
RegisterBacked(entities) ==
    SelectSeq(entities, LAMBDA entity : entity.cls # "HuaweiSolarOptimizerSensorEntity")

\* C28: the unique id of every register-backed entity the setup makes is
\* "<serial number of its bridge>_<key>", no two of these entities have the
\* same unique id, and no two of them made for one bridge have the same key.
C28_UniqueIdsDistinct ==
    SetupDone =>
        LET entities == RegisterBacked(res[1].entities)
        IN  /\ \A i \in DOMAIN entities :
                   entities[i].unique_id =
                       entities[i].coordinator.bridge \o "_" \o entities[i].key
            /\ Cardinality({entities[i].unique_id : i \in DOMAIN entities}) = Len(entities)
            /\ \A k \in DOMAIN arg.v :
                   LET mine == RegisterBacked(EntitiesOfBridge(arg.v[k]))
                   IN  Cardinality(Range(Keys(mine))) = Len(mine)

C28_Witness ==
    /\ SetupDone
    /\ ~res[1].raised
    /\ Len(arg.v) = 2
    /\ arg.v[1].bridge.power_meter_type = Some(THREE_PHASE)
    /\ arg.v[1].bridge.battery_type = StorageProductModel_HUAWEI_LUNA2000
    /\ arg.v[1].configuration_update_coordinator
    /\ arg.v[1].bridge.supports_capacity_control
    /\ arg.v[1].bridge.has_optimizers
    /\ arg.v[1].device_infos.battery_1
    /\ arg.v[1].device_infos.battery_2
    /\ arg.v[1].bridge.pv_string_count = MaxPvStrings
    /\ Len(RegisterBacked(EntitiesOfBridge(arg.v[1]))) =
           31 + 1 + 2 * MaxPvStrings + 1 + 20 + 9 + 4 + 13 + 10
    /\ \E i \in DOMAIN res[1].entities : res[1].entities[i].unique_id = "HV1_ALARMS"
    /\ \E i \in DOMAIN res[1].entities :
           res[1].entities[i].unique_id = "HV2_storage_forcible_charge_discharge_write"
    /\ \E i \in DOMAIN res[1].entities :
           res[1].entities[i].unique_id = "HV1_storage_unit_1_bus_voltage"
    /\ \E i \in DOMAIN res[1].entities :
           res[1].entities[i].unique_id = "HV1_storage_unit_2_bus_voltage"

====
